---- MODULE Spec2Model ----
(***************************************************************************)
(* The template object model of archetypal: the identity/cache layer       *)
(* (metaclass Unique, created_obj, the per-class _cache), the entity base  *)
(* (UmiBase), GlazingMaterial, ZoneConstructionSet and Zone with their     *)
(* combine / extend operations.                                            *)
(*                                                                         *)
(* Python objects live in `heap` (a sequence; the index of an object is    *)
(* its identity and its id(self)).  An object is [cls, d] where d is the   *)
(* object's __dict__, a function from attribute names to tagged values.    *)
(* Floats are modelled as exact rationals [t |-> "num", n, d].             *)
(***************************************************************************)
EXTENDS Integers, Sequences, FiniteSets, TLC

VARIABLES heap, created_obj, cls_cache, zonesurfaces, z_set, umi_template,
          data_dict, reads

\* the objects and the registries
heap_vars == <<heap, created_obj, cls_cache>>
\* the surfaces of the zone handed to ZoneConstructionSet.from_zone and the
\* construction set it returns
surface_vars == <<zonesurfaces, z_set>>
\* the library last read (UmiTemplateLibrary), the document last returned
\* by its to_dict and the number of libraries read so far
library_vars == <<umi_template, data_dict, reads>>
\* what the operations on the objects leave alone
not_heap_vars == <<surface_vars, library_vars>>

vars == <<heap_vars, not_heap_vars>>

\* ------------------------------------------------------------------ bounds
MaxObj == 3
\* the zone a Zone.combine makes may be allocated on top of them: the smallest
\* combine of two unequal zones takes the two zones, their construction set
\* and the new zone
MaxHeap == MaxObj + 1

\* ------------------------------------------------------------ Python values
None == [t |-> "None"]

RECURSIVE GCD(_, _)
GCD(a, b) == IF b = 0 THEN a ELSE GCD(b, a % b)

Abs(x) == IF x < 0 THEN -x ELSE x

\* a float, kept as the exact rational n/d in lowest terms, d > 0
Num(n, d) ==
    LET g == GCD(Abs(n), Abs(d))
        s == IF d < 0 THEN -1 ELSE 1
    IN  [t |-> "num", n |-> (s * n) \div g, d |-> (s * d) \div g]

Str(s) == [t |-> "str", s |-> s]
List(l) == [t |-> "list", l |-> l]
UserList(l) == [t |-> "ulist", l |-> l]
\* id(self): the address of the object
IdOf(a) == [t |-> "addr", v |-> a]
Bool(b) == [t |-> "bool", b |-> b]
\* a reference to the object at address a
Ref(a) == [t |-> "ref", a |-> a]

IsNum(v) == v.t = "num"
IsStr(v) == v.t = "str"
IsList(v) == v.t = "list"
IsUserList(v) == v.t = "ulist"

\* Python truthiness
Truthy(v) ==
    CASE v.t = "None" -> FALSE
      [] v.t = "num" -> v.n # 0
      [] v.t = "str" -> v.s # <<>>
      [] v.t = "list" -> v.l # <<>>
      [] v.t = "ulist" -> v.l # <<>>
      [] v.t = "bool" -> v.b
      [] OTHER -> TRUE

\* ------------------------------------------------------------ Python dicts
EmptyDict == [x \in {} |-> 0]
Put(f, k, v) == [x \in (DOMAIN f) \cup {k} |-> IF x = k THEN v ELSE f[x]]
Pop(f, k) == [x \in (DOMAIN f) \ {k} |-> f[x]]
Get(f, k, default) == IF k \in DOMAIN f THEN f[k] ELSE default
\* dict.update: the entries of g win
Update(f, g) == [x \in (DOMAIN f) \cup (DOMAIN g) |-> IF x \in DOMAIN g THEN g[x] ELSE f[x]]

\* ------------------------------------------------------------------ classes
\* the classes built with metaclass=Unique
UniqueClasses == {"GlazingMaterial", "ZoneConstructionSet"}
\* every class that owns a _cache dict (Zone declares its own)
Classes == UniqueClasses \cup {"Zone"}

\* ---------------------------------------------------------------- the world
\* The mutable program state an operation works on; operations are operators
\* from a world to an outcome [w, ret, exc]: the world after the call, the
\* address returned (0: nothing) and the exception raised ("": none).
World == [heap |-> heap, created_obj |-> created_obj, cls_cache |-> cls_cache]

Returns(w, a) == [w |-> w, ret |-> a, exc |-> ""]
Raises(w, e) == [w |-> w, ret |-> 0, exc |-> e]

\* the model stops allocating at MaxObj objects (MaxHeap for a zone): an
\* operation that would need one more object is not taken (the guard of every
\* action)
HeapFull == "HeapFull"

\* no construction set has been built from the surfaces yet
NotBuilt == [exc |-> "", built |-> FALSE]

Addrs(w) == 1..Len(w.heap)
Obj(w, a) == w.heap[a]
Attr(w, a, k) == w.heap[a].d[k]
HasAttr(w, a, k) == k \in DOMAIN w.heap[a].d
SetDict(w, a, d) == [w EXCEPT !.heap[a].d = d]

\* ------------------------------------------------------------- constructors
\* the _predecessors list of a fresh entity
InitialPredecessors == UserList(<<>>)

\* UmiBase.__init__: the attributes it sets that the model follows (Name, idf,
\* DataSource, id); sql, Category, Comments and all_objects (the global
\* created_obj itself) are not read by anything modelled.
UmiBase_init(a, kw) ==
    LET idf == Get(kw, "idf", None)
        ds == Get(kw, "DataSource", None)
    IN  [Name |-> kw.Name,
         idf |-> idf,
         \* DataSource None: self.idf.building_name(...), which raises on idf
         \* None and leaves None
         DataSource |-> IF ds = None /\ idf # None THEN Str(<<"bldg">>) ELSE ds,
         id |-> Get(kw, "$id", IdOf(a)),
         _predecessors |-> InitialPredecessors]

\* MaterialBase.__init__ followed by GlazingMaterial.__init__ (which sets
\* Density and Conductivity again, with its own defaults).  Conductivity
\* stands for every float attribute, Type for every string attribute.
GlazingMaterial_init(a, kw) ==
    LET srp == Get(kw, "SubstitutionRatePattern", None)
    IN  Update(UmiBase_init(a, kw),
               [SubstitutionRatePattern |-> IF srp = None THEN List(<<1>>) ELSE srp,
                Type |-> Get(kw, "Type", None),
                Density |-> Get(kw, "Density", Num(2500, 1)),
                Conductivity |-> Get(kw, "Conductivity", Num(0, 1))])

\* ZoneConstructionSet.__init__; Slab and IsSlabAdiabatic stand for the five
\* construction slots and their five flags.
ZoneConstructionSet_init(a, kw) ==
    Update(UmiBase_init(a, kw),
           [Slab |-> Get(kw, "Slab", None),
            IsSlabAdiabatic |-> Get(kw, "IsSlabAdiabatic", Bool(FALSE)),
            _belongs_to_zone |-> Get(kw, "zone", None)])

ClassInit(cls, a, kw) ==
    CASE cls = "GlazingMaterial" -> GlazingMaterial_init(a, kw)
      [] cls = "ZoneConstructionSet" -> ZoneConstructionSet_init(a, kw)

\* ---------------------------------------------------------- Unique.__call__
UniqueKey(cls, name) == [c |-> cls, n |-> name]

\* Unique.__call__ without the lookup: every call makes an object
Unique_call_no_lookup(w, cls, kw) ==
    LET key == UniqueKey(cls, kw.Name)
        a == Len(w.heap) + 1
    IN  IF Len(w.heap) >= MaxObj THEN Raises(w, HeapFull)
        ELSE Returns([heap |-> Append(w.heap, [cls |-> cls, d |-> ClassInit(cls, a, kw)]),
                      created_obj |-> Put(w.created_obj, key, a),
                      cls_cache |-> [w.cls_cache EXCEPT ![cls] = Put(@, key, a)]],
                     a)

\* Unique.__call__ running __init__ again on the registered instance
Unique_call_reinit(w, cls, kw) ==
    LET key == UniqueKey(cls, kw.Name)
        a == Len(w.heap) + 1
    IN  IF key \in DOMAIN w.created_obj
        THEN Returns(SetDict(w, w.created_obj[key],
                             ClassInit(cls, w.created_obj[key], kw)),
                     w.created_obj[key])
        ELSE IF Len(w.heap) >= MaxObj THEN Raises(w, HeapFull)
        ELSE Returns([heap |-> Append(w.heap, [cls |-> cls, d |-> ClassInit(cls, a, kw)]),
                      created_obj |-> Put(w.created_obj, key, a),
                      cls_cache |-> [w.cls_cache EXCEPT ![cls] = Put(@, key, a)]],
                     a)

Unique_call(w, cls, kw) ==
    LET key == UniqueKey(cls, kw.Name)
        a == Len(w.heap) + 1
    IN  IF key \in DOMAIN w.created_obj
        THEN Returns(w, w.created_obj[key])
        ELSE IF Len(w.heap) >= MaxObj THEN Raises(w, HeapFull)
        ELSE Returns([heap |-> Append(w.heap, [cls |-> cls, d |-> ClassInit(cls, a, kw)]),
                      created_obj |-> Put(w.created_obj, key, a),
                      cls_cache |-> [w.cls_cache EXCEPT ![cls] = Put(@, key, a)]],
                     a)

\* UmiBase.clear_cache
clear_cache(w) == [w EXCEPT !.created_obj = EmptyDict]

\* ------------------------------------------------------------ GlazingMaterial
\* GlazingMaterial.__eq__ (the attributes the model follows)
GlazingMaterial_eq(w, a, b) ==
    /\ Obj(w, b).cls = "GlazingMaterial"
    /\ Attr(w, a, "Density") = Attr(w, b, "Density")
    /\ Attr(w, a, "Conductivity") = Attr(w, b, "Conductivity")
    /\ Attr(w, a, "Type") = Attr(w, b, "Type")

\* exact rational arithmetic
RAdd(x, y) == Num(x.n * y.d + y.n * x.d, x.d * y.d)
RMul(x, y) == Num(x.n * y.n, x.d * y.d)
RDiv(x, y) == Num(x.n * y.d, x.d * y.n)

\* np.average([x, y], weights=[wx, wy]): sum(value * weight) / sum(weight)
Average(x, y, wx, wy) == RDiv(RAdd(RMul(x, wx), RMul(y, wy)), RAdd(wx, wy))

\* UmiBase._float_mean: [exc, v]; np.average raises TypeError on a None
\* operand and ZeroDivisionError on weights that sum to zero
float_mean(w, a, b, attr, weights) ==
    LET x == Attr(w, a, attr)
        y == Attr(w, b, attr)
    IN  IF x = None /\ y = None THEN [exc |-> "", v |-> None]
        ELSE IF ~IsNum(x) \/ ~IsNum(y) THEN [exc |-> "TypeError", v |-> None]
        ELSE IF RAdd(weights[1], weights[2]).n = 0
             THEN [exc |-> "ZeroDivisionError", v |-> None]
        ELSE [exc |-> "", v |-> Average(x, y, weights[1], weights[2])]

\* UmiBase._str_mean
str_mean(w, a, b, attr, append) ==
    LET x == Attr(w, a, attr)
        y == Attr(w, b, attr)
    IN  IF x # None /\ y = None THEN x
        ELSE IF x = None /\ y # None THEN y
        ELSE IF Truthy(x) /\ Truthy(y)
             THEN IF append THEN Str(x.s \o y.s) ELSE x
        ELSE None

\* self.predecessors
predecessors(w, a) == Attr(w, a, "_predecessors").l

\* self._get_predecessors_meta(other): the metadata of the combined entity,
\* its Name derived from both inputs
get_predecessors_meta(w, a, b) ==
    [Name |-> Str(Attr(w, a, "Name").s \o Attr(w, b, "Name").s)]

\* new_obj._predecessors.extend(self.predecessors + other.predecessors)
ExtendPredecessors(w, c, a, b) ==
    [w EXCEPT !.heap[c].d._predecessors =
        UserList(@.l \o predecessors(w, a) \o predecessors(w, b))]

\* attributes GlazingMaterial.combine does not merge
CombineSkipped == {"Comments", "idf", "sql", "all_objects", "id", "_idf", "_sql"}

\* the order in which the constructors set the attributes: the order of
\* self.__dict__.items()
AttrOrder ==
    <<"Name", "idf", "DataSource", "id", "_predecessors", "Conductivity",
      "Density", "SubstitutionRatePattern", "Type">>

\* one attribute of the combine loop: [exc, keep, v]
CombineAttr(w, a, b, attr, weights) ==
    LET value == Attr(w, a, attr)
        fm == float_mean(w, a, b, attr, weights)
    IN  CASE IsNum(value) -> [exc |-> fm.exc, keep |-> TRUE, v |-> fm.v]
          [] IsStr(value) -> [exc |-> "", keep |-> TRUE,
                              v |-> str_mean(w, a, b, attr, FALSE)]
          [] IsList(value) ->
                IF IsList(Attr(w, b, attr))
                THEN [exc |-> "", keep |-> TRUE,
                      v |-> List(value.l \o Attr(w, b, attr).l)]
                ELSE [exc |-> "TypeError", keep |-> FALSE, v |-> None]
          [] IsUserList(value) -> [exc |-> "", keep |-> FALSE, v |-> None]
          [] OTHER -> [exc |-> "NotImplementedError", keep |-> FALSE, v |-> None]

\* the exception of the first attribute, in loop order, whose merge raises
FirstRaised(res) ==
    LET bad == {i \in 1..Len(AttrOrder) :
                  AttrOrder[i] \in DOMAIN res /\ res[AttrOrder[i]].exc # ""}
    IN  IF bad = {} THEN ""
        ELSE res[AttrOrder[CHOOSE i \in bad : \A j \in bad : i <= j]].exc

\* new_obj = self.__class__(**meta, **new_attr, idf=self.idf) and the
\* predecessors of the new object
combine_new(w, a, b, kw) ==
    LET r == Unique_call(w, Obj(w, a).cls, kw)
    IN  IF r.exc # "" THEN r
        ELSE Returns(ExtendPredecessors(r.w, r.ret, a, b), r.ret)

\* the combine of a GlazingMaterial from its attributes, past the checks
GlazingMaterial_merge(w, a, b, weights) ==
    LET meta == get_predecessors_meta(w, a, b)
        wts == IF ~Truthy(weights)
               THEN <<Attr(w, a, "Density"), Attr(w, b, "Density")>>
               ELSE weights.l
        attrs == (DOMAIN Obj(w, a).d) \ CombineSkipped
        res == [k \in attrs |-> CombineAttr(w, a, b, k, wts)]
        new_attr == [k \in {x \in attrs : res[x].keep} \ DOMAIN meta |-> res[k].v]
    IN  IF FirstRaised(res) # "" THEN Raises(w, FirstRaised(res))
        ELSE combine_new(w, a, b,
                         Update(Update(meta, new_attr), [idf |-> Attr(w, a, "idf")]))

\* GlazingMaterial.combine without the shortcut for equal operands
GlazingMaterial_combine_no_shortcut(w, a, b, weights) ==
    IF Obj(w, b).cls # Obj(w, a).cls THEN Raises(w, "NotImplementedError")
    ELSE IF ~HasAttr(w, a, "Name") \/ ~HasAttr(w, b, "Name") THEN Raises(w, "AttributeError")
    ELSE GlazingMaterial_merge(w, a, b, weights)

\* GlazingMaterial.combine answering self to an operand of another type
GlazingMaterial_combine_any_type(w, a, b, weights) ==
    IF Obj(w, b).cls # Obj(w, a).cls THEN Returns(w, a)
    ELSE IF GlazingMaterial_eq(w, a, b) THEN Returns(w, a)
    ELSE IF ~HasAttr(w, a, "Name") \/ ~HasAttr(w, b, "Name") THEN Raises(w, "AttributeError")
    ELSE GlazingMaterial_merge(w, a, b, weights)

\* GlazingMaterial.combine(self=a, other=b, weights); weights None or <<w1, w2>>
GlazingMaterial_combine(w, a, b, weights) ==
    IF Obj(w, b).cls # Obj(w, a).cls THEN Raises(w, "NotImplementedError")
    ELSE IF GlazingMaterial_eq(w, a, b) THEN Returns(w, a)
    ELSE IF ~HasAttr(w, a, "Name") \/ ~HasAttr(w, b, "Name") THEN Raises(w, "AttributeError")
    ELSE GlazingMaterial_merge(w, a, b, weights)

\* ------------------------------------------------- aggregates outside the model
\* x.combine(y) for an aggregate whose class is not followed object by object
\* (OpaqueConstruction, ZoneConditioning, ...), held as a value: None has no
\* combine, another type is refused, equal operands give self, unequal ones
\* a value derived from both.  [exc, v]
Aggregate_combine(x, y) ==
    IF x = None THEN [exc |-> "AttributeError", v |-> None]
    ELSE IF y = None THEN [exc |-> "NotImplementedError", v |-> None]
    ELSE IF x = y THEN [exc |-> "", v |-> x]
    ELSE [exc |-> "", v |-> Str(x.s \o y.s)]

\* OpaqueConstruction.generic(idf=...)
GenericConstruction == Str(<<"generic">>)

\* ------------------------------------------------------------------ Zone (1)
\* Zone.area: [exc, v]
Zone_area(w, z) ==
    IF Attr(w, z, "_area") # None THEN [exc |-> "", v |-> Attr(w, z, "_area")]
    ELSE IF Attr(w, z, "_epbunch") = None THEN [exc |-> "AttributeError", v |-> None]
    ELSE [exc |-> "", v |-> Attr(w, z, "_epbunch").area]

\* Zone.volume: [exc, v]
Zone_volume(w, z) ==
    IF Truthy(Attr(w, z, "_volume")) THEN [exc |-> "", v |-> Attr(w, z, "_volume")]
    ELSE IF Attr(w, z, "_epbunch") = None THEN [exc |-> "AttributeError", v |-> None]
    ELSE [exc |-> "", v |-> Attr(w, z, "_epbunch").volume]

\* -------------------------------------------------------- ZoneConstructionSet
\* ZoneConstructionSet.__eq__
ZoneConstructionSet_eq(w, a, b) ==
    /\ Obj(w, b).cls = "ZoneConstructionSet"
    /\ Attr(w, a, "Slab") = Attr(w, b, "Slab")
    /\ Attr(w, a, "IsSlabAdiabatic") = Attr(w, b, "IsSlabAdiabatic")

\* the weights of ZoneConstructionSet.combine: [exc, l]
ZoneConstructionSet_weights(w, a, b, weights) ==
    IF Truthy(weights) THEN [exc |-> "", l |-> weights.l]
    ELSE IF Attr(w, a, "_belongs_to_zone") = None \/ Attr(w, b, "_belongs_to_zone") = None
         THEN [exc |-> "AttributeError", l |-> <<>>]
    ELSE LET va == Zone_volume(w, Attr(w, a, "_belongs_to_zone").a)
             vb == Zone_volume(w, Attr(w, b, "_belongs_to_zone").a)
         IN  IF va.exc # "" THEN [exc |-> va.exc, l |-> <<>>]
             ELSE IF vb.exc # "" THEN [exc |-> vb.exc, l |-> <<>>]
             ELSE [exc |-> "", l |-> <<va.v, vb.v>>]

\* ZoneConstructionSet.combine(self=a, other=b, weights)
ZoneConstructionSet_combine(w, a, b, weights) ==
    IF Obj(w, b).cls # Obj(w, a).cls THEN Raises(w, "NotImplementedError")
    ELSE IF ZoneConstructionSet_eq(w, a, b) THEN Returns(w, a)
    ELSE IF ZoneConstructionSet_weights(w, a, b, weights).exc # ""
         THEN Raises(w, ZoneConstructionSet_weights(w, a, b, weights).exc)
    ELSE IF ~HasAttr(w, a, "Name") \/ ~HasAttr(w, b, "Name") THEN Raises(w, "AttributeError")
    ELSE
      LET slab == Aggregate_combine(Attr(w, a, "Slab"), Attr(w, b, "Slab"))
          flag == Bool(Attr(w, a, "IsSlabAdiabatic").b \/ Attr(w, b, "IsSlabAdiabatic").b)
      IN  IF slab.exc # "" THEN Raises(w, slab.exc)
          \* sql=self.idf.sql
          ELSE IF Attr(w, a, "idf") = None THEN Raises(w, "AttributeError")
          ELSE combine_new(w, a, b,
                  Update(get_predecessors_meta(w, a, b),
                         [Slab |-> slab.v, IsSlabAdiabatic |-> flag,
                          idf |-> Attr(w, a, "idf")]))

\* ------------------------------------------------------------------ Zone (2)
\* settings.zone_weight: the zone attribute the default weights are read from
zone_weight == "volume"

\* Zone.__init__ up to the registration; Conditioning stands for the owned
\* aggregates Conditioning, Ventilation, DomesticHotWater, Loads and
\* InternalMassConstruction, DaylightMeshResolution for the three floats.
Zone_init(a, kw) ==
    Update(UmiBase_init(a, kw),
           [Conditioning |-> Get(kw, "Conditioning", None),
            Constructions |-> Get(kw, "Constructions", None),
            DaylightMeshResolution |-> Get(kw, "DaylightMeshResolution", Num(1, 1)),
            _epbunch |-> Get(kw, "epbunch", None),
            _area |-> Get(kw, "area", None),
            _volume |-> Get(kw, "volume", None)])

\* hash((Name, id(idf))), taken as injective
Zone_hash(name, idf) == [name |-> name, idf |-> idf]

\* Zone(**kw): Zone is built without a metaclass, every call makes an object;
\* self._cache[hash(self)] = self; CREATED_OBJECTS[hash(self)] = self
Zone_call(w, kw) ==
    LET a == Len(w.heap) + 1
        d == Zone_init(a, kw)
        key == Zone_hash(d.Name, d.idf)
    IN  IF Len(w.heap) >= MaxHeap THEN Raises(w, HeapFull)
        ELSE Returns([heap |-> Append(w.heap, [cls |-> "Zone", d |-> d]),
                      created_obj |-> Put(w.created_obj, key, a),
                      cls_cache |-> [w.cls_cache EXCEPT !["Zone"] = Put(@, key, a)]],
                     a)

\* Zone.get_cached(name, idf): the address, 0 for None
get_cached(w, name, idf) == Get(w.cls_cache["Zone"], Zone_hash(name, idf), 0)

\* ZoneConstructionSet.from_zone(zone) and the assignments of
\* from_zone_epbunch to the new zone
from_zone_fill(w, z, ep) ==
    LET r == Unique_call(w, "ZoneConstructionSet",
                 [Name |-> Str(Attr(w, z, "Name").s \o <<"_ZoneConstructionSet">>),
                  Slab |-> GenericConstruction,
                  zone |-> Ref(z),
                  idf |-> Attr(w, z, "idf")])
    IN  IF r.exc # "" THEN r
        ELSE Returns(SetDict(r.w, z,
                        Update(Obj(r.w, z).d,
                               [_epbunch |-> ep,
                                Constructions |-> Ref(r.ret),
                                Conditioning |-> ep.conditioning])),
                     z)

\* the part of from_zone_epbunch after cls(Name=..., idf=...)
from_zone_made(r, ep) == IF r.exc # "" THEN r ELSE from_zone_fill(r.w, r.ret, ep)

\* Zone.from_zone_epbunch(zone_ep, sql)
from_zone_epbunch(w, ep) ==
    IF get_cached(w, ep.Name, ep.theidf) # 0
    THEN Returns(w, get_cached(w, ep.Name, ep.theidf))
    ELSE from_zone_made(Zone_call(w, [Name |-> ep.Name, idf |-> ep.theidf]), ep)

\* x == y for two values of the Constructions slot
Constructions_eq(w, x, y) ==
    IF x = None \/ y = None THEN x = y
    ELSE ZoneConstructionSet_eq(w, x.a, y.a)

\* Zone.__eq__
Zone_eq(w, a, b) ==
    /\ Obj(w, b).cls = "Zone"
    /\ Attr(w, a, "Conditioning") = Attr(w, b, "Conditioning")
    /\ Constructions_eq(w, Attr(w, a, "Constructions"), Attr(w, b, "Constructions"))
    /\ Attr(w, a, "DaylightMeshResolution") = Attr(w, b, "DaylightMeshResolution")

\* the weights of Zone.combine: [exc, l]
Zone_weights(w, a, b, weights) ==
    IF Truthy(weights) THEN [exc |-> "", l |-> weights.l]
    ELSE LET x == IF zone_weight = "area" THEN Zone_area(w, a) ELSE Zone_volume(w, a)
             y == IF zone_weight = "area" THEN Zone_area(w, b) ELSE Zone_volume(w, b)
         IN  IF x.exc # "" THEN [exc |-> x.exc, l |-> <<>>]
             ELSE IF y.exc # "" THEN [exc |-> y.exc, l |-> <<>>]
             ELSE [exc |-> "", l |-> <<x.v, y.v>>]

\* the end of Zone.combine: the re-parenting of the combined construction
\* set and the predecessors of the new zone z
Zone_combine_link(w, z, a, b, zcs) ==
    Returns(ExtendPredecessors(
                SetDict(w, zcs, Put(Obj(w, zcs).d, "_belongs_to_zone", Ref(z))),
                z, a, b),
            z)

\* new_obj._area = self.area + other.area
Zone_combine_area(w, z, a, b, zcs) ==
    IF Zone_area(w, a).exc # "" THEN Raises(w, Zone_area(w, a).exc)
    ELSE IF Zone_area(w, b).exc # "" THEN Raises(w, Zone_area(w, b).exc)
    ELSE Zone_combine_link(
            SetDict(w, z, Put(Obj(w, z).d, "_area",
                              RAdd(Zone_area(w, a).v, Zone_area(w, b).v))),
            z, a, b, zcs)

\* new_obj._volume = self.volume + other.volume, r the outcome of Zone(...)
Zone_combine_made(r, a, b, zcs) ==
    IF r.exc # "" THEN r
    ELSE IF Zone_volume(r.w, a).exc # "" THEN Raises(r.w, Zone_volume(r.w, a).exc)
    ELSE IF Zone_volume(r.w, b).exc # "" THEN Raises(r.w, Zone_volume(r.w, b).exc)
    ELSE Zone_combine_area(
            SetDict(r.w, r.ret, Put(Obj(r.w, r.ret).d, "_volume",
                                    RAdd(Zone_volume(r.w, a).v, Zone_volume(r.w, b).v))),
            r.ret, a, b, zcs)

\* the float means and new_obj = self.__class__(**meta, **attr), r the outcome
\* of the combine of the two construction sets, cond the combined Conditioning
Zone_combine_constructed(r, a, b, wts, cond) ==
    IF r.exc # "" THEN r
    ELSE IF float_mean(r.w, a, b, "DaylightMeshResolution", wts).exc # ""
         THEN Raises(r.w, float_mean(r.w, a, b, "DaylightMeshResolution", wts).exc)
    ELSE Zone_combine_made(
            Zone_call(r.w,
                Update(get_predecessors_meta(r.w, a, b),
                       [Conditioning |-> cond,
                        Constructions |-> Ref(r.ret),
                        DaylightMeshResolution |->
                            float_mean(r.w, a, b, "DaylightMeshResolution", wts).v])),
            a, b, r.ret)

\* the combines of the owned aggregates, wts the outcome of the weights
Zone_combine_weighted(w, a, b, wts) ==
    LET cond == Aggregate_combine(Attr(w, a, "Conditioning"), Attr(w, b, "Conditioning"))
    IN  IF wts.exc # "" THEN Raises(w, wts.exc)
        ELSE IF cond.exc # "" THEN Raises(w, cond.exc)
        ELSE IF Attr(w, a, "Constructions") = None THEN Raises(w, "AttributeError")
        ELSE IF Attr(w, b, "Constructions") = None THEN Raises(w, "NotImplementedError")
        ELSE Zone_combine_constructed(
                ZoneConstructionSet_combine(w, Attr(w, a, "Constructions").a,
                                            Attr(w, b, "Constructions").a, List(wts.l)),
                a, b, wts.l, cond.v)

\* Zone.combine(self=a, other=b, weights)
Zone_combine(w, a, b, weights) ==
    IF Obj(w, b).cls # Obj(w, a).cls THEN Raises(w, "NotImplementedError")
    ELSE IF Zone_eq(w, a, b) THEN Returns(w, a)
    \* incoming_zone_data.pop("Name")
    ELSE IF ~HasAttr(w, a, "Name") THEN Raises(w, "KeyError")
    ELSE IF ~HasAttr(w, b, "Name") THEN Raises(w, "AttributeError")
    ELSE Zone_combine_weighted(w, a, b, Zone_weights(w, a, b, weights))

\* --------------------------------------------------------- a + b and a += b
\* self == other, by the __eq__ of the class of self
eq(w, a, b) ==
    CASE Obj(w, a).cls = "GlazingMaterial" -> GlazingMaterial_eq(w, a, b)
      [] Obj(w, a).cls = "ZoneConstructionSet" -> ZoneConstructionSet_eq(w, a, b)
      [] Obj(w, a).cls = "Zone" -> Zone_eq(w, a, b)

\* self.combine(other, weights) of the class of self
combine(w, a, b, weights) ==
    CASE Obj(w, a).cls = "GlazingMaterial" -> GlazingMaterial_combine(w, a, b, weights)
      [] Obj(w, a).cls = "ZoneConstructionSet" -> ZoneConstructionSet_combine(w, a, b, weights)
      [] Obj(w, a).cls = "Zone" -> Zone_combine(w, a, b, weights)

\* self + other
add(w, a, b) == combine(w, a, b, None)

\* self.all_objects.pop((self.__class__.__name__, name)); return self
extend_pop(w, a, name) ==
    IF UniqueKey(Obj(w, a).cls, name) \notin DOMAIN w.created_obj
    THEN Raises(w, "KeyError")
    ELSE Returns([w EXCEPT !.created_obj = Pop(@, UniqueKey(Obj(w, a).cls, name))], a)

\* self.__dict__.update(**new_obj.__dict__)
extend_update(w, a, c, name) ==
    extend_pop(SetDict(w, a, Update(Obj(w, a).d, Obj(w, c).d)), a, name)

\* new_obj.__dict__.pop('id'); new_obj.id = id;
\* name = new_obj.__dict__.pop('Name')
extend_rename(w, a, c) ==
    IF ~HasAttr(w, c, "Name") THEN Raises(w, "KeyError")
    ELSE extend_update(SetDict(w, c, Pop(Obj(w, c).d, "Name")), a, c, Attr(w, c, "Name"))

\* UmiBase.extend after new_obj = self + other, r the outcome of the sum
extend_from(r, a, id) ==
    IF r.exc # "" THEN r
    ELSE extend_rename(SetDict(r.w, r.ret, Put(Obj(r.w, r.ret).d, "id", id)), a, r.ret)

\* UmiBase.extend (a += b)
extend(w, a, b) == extend_from(add(w, a, b), a, Attr(w, a, "id"))

\* ---------------------------------------------------------- inputs (bounded)
NameA == Str(<<"A">>)
NameB == Str(<<"B">>)
\* the Name a combine derives from A and B
NameAB == Str(<<"A", "B">>)
Idf1 == Str(<<"idf1">>)

\* GlazingMaterial(**kw)
GlazingKwargs ==
    LET K1 == [Density |-> Num(100, 1), Conductivity |-> Num(100, 1),
               Type |-> Str(<<"x">>), DataSource |-> Str(<<"ds">>)]
        K2 == [Density |-> Num(300, 1), Conductivity |-> Num(200, 1),
               Type |-> Str(<<>>), DataSource |-> Str(<<"ds">>)]
        K3 == [Density |-> Num(100, 1), Conductivity |-> Num(200, 1),
               DataSource |-> Str(<<"ds">>)]
    IN  { Update(K1, [Name |-> NameA]), Update(K2, [Name |-> NameA]),
          Update(K3, [Name |-> NameA]),
          Update(K1, [Name |-> NameB]), Update(K2, [Name |-> NameB]),
          Update(K1, [Name |-> NameAB]) }

\* ZoneConstructionSet(**kw)
ConstructionSetKwargs ==
    { [Name |-> NameA], [Name |-> NameB],
      [Name |-> NameB, IsSlabAdiabatic |-> Bool(TRUE)] }

KwargsOf(cls) ==
    CASE cls = "GlazingMaterial" -> GlazingKwargs
      [] cls = "ZoneConstructionSet" -> ConstructionSetKwargs

\* the entries of the "GlazingMaterials" of the documents loaded
StoreKwargs ==
    { [Name |-> NameA, Density |-> Num(100, 1), Conductivity |-> Num(100, 1),
       Type |-> Str(<<"x">>), DataSource |-> Str(<<"ds">>)] @@ ("$id" :> Str(<<"1">>)),
      [Name |-> NameB, Density |-> Num(300, 1), Conductivity |-> Num(200, 1),
       Type |-> Str(<<"y">>), DataSource |-> Str(<<"ds">>)] @@ ("$id" :> Str(<<"1">>)) }

\* Zone(**kw)
ZoneKwargs ==
    { [Name |-> NameA, idf |-> Idf1],
      [Name |-> NameA, idf |-> Idf1, DaylightMeshResolution |-> Num(2, 1)] }

\* Zone(**kw) with its aggregates, Constructions one of the construction sets
\* of the world w
FullZoneKwargs(w) ==
    { [Name |-> NameB, idf |-> Idf1, Conditioning |-> Str(<<"cond">>),
       Constructions |-> Ref(c), DaylightMeshResolution |-> Num(m, 1),
       area |-> Num(30, 1), volume |-> Num(300, 1)] :
         c \in {x \in Addrs(w) : Obj(w, x).cls = "ZoneConstructionSet"},
         m \in {1, 2} }

\* the ZONE objects of the idf: Name, theidf, the floor area and the volume
\* of the surfaces, and the conditioning read from the idf
ZoneEpbunches ==
    { [Name |-> NameA, theidf |-> Idf1, area |-> Num(50, 1), volume |-> Num(100, 1),
       conditioning |-> Str(<<"cond">>)] }

\* explicit weights of a combine call
WeightChoices == {None}

\* ------------------------------------------------------------------ actions
Init ==
    /\ heap = <<>>
    /\ created_obj = EmptyDict
    /\ cls_cache = [c \in Classes |-> EmptyDict]
    /\ zonesurfaces = <<>>
    /\ z_set = NotBuilt
    /\ umi_template = None
    /\ data_dict = None
    /\ reads = 0

\* T(Name=n, **kwargs) for a class T built with Unique
New ==
    \E cls \in UniqueClasses :
      \E kw \in KwargsOf(cls) :
        LET r == Unique_call(World, cls, kw)
        IN  /\ r.exc # HeapFull
            /\ heap' = r.w.heap
            /\ created_obj' = r.w.created_obj
            /\ cls_cache' = r.w.cls_cache
            /\ UNCHANGED not_heap_vars

\* load_json_objects: GlazingMaterial(**store), store carrying "$id"
LoadJson ==
    \E kw \in StoreKwargs :
        LET r == Unique_call(World, "GlazingMaterial", kw)
        IN  /\ r.exc # HeapFull
            /\ heap' = r.w.heap
            /\ created_obj' = r.w.created_obj
            /\ cls_cache' = r.w.cls_cache
            /\ UNCHANGED not_heap_vars

\* Zone(**kwargs)
NewZone ==
    \E kw \in ZoneKwargs \cup FullZoneKwargs(World) :
        LET r == Zone_call(World, kw)
        IN  /\ r.exc # HeapFull
            /\ Len(r.w.heap) <= MaxObj
            /\ heap' = r.w.heap
            /\ created_obj' = r.w.created_obj
            /\ cls_cache' = r.w.cls_cache
            /\ UNCHANGED not_heap_vars

\* Zone.from_zone_epbunch(zone_ep, sql)
FromZoneEpbunch ==
    \E ep \in ZoneEpbunches :
        LET r == from_zone_epbunch(World, ep)
        IN  /\ r.exc # HeapFull
            /\ heap' = r.w.heap
            /\ created_obj' = r.w.created_obj
            /\ cls_cache' = r.w.cls_cache
            /\ UNCHANGED not_heap_vars

\* obj.clear_cache()
ClearCache ==
    /\ heap' = heap
    /\ created_obj' = clear_cache(World).created_obj
    /\ cls_cache' = clear_cache(World).cls_cache
    /\ UNCHANGED not_heap_vars

\* a.combine(b, weights) (a + b when weights is None)
Combine ==
    \E a \in Addrs(World), b \in Addrs(World), wts \in WeightChoices :
        LET r == combine(World, a, b, wts)
        IN  /\ r.exc # HeapFull
            /\ heap' = r.w.heap
            /\ created_obj' = r.w.created_obj
            /\ cls_cache' = r.w.cls_cache
            /\ UNCHANGED not_heap_vars

\* a += b
Extend ==
    \E a \in Addrs(World), b \in Addrs(World) :
        LET r == extend(World, a, b)
        IN  /\ r.exc # HeapFull
            /\ heap' = r.w.heap
            /\ created_obj' = r.w.created_obj
            /\ cls_cache' = r.w.cls_cache
            /\ UNCHANGED not_heap_vars

Next ==
    \/ New
    \/ LoadJson
    \/ NewZone
    \/ FromZoneEpbunch
    \/ ClearCache
    \/ Combine
    \/ Extend

Spec == Init /\ [][Next]_vars
\* ------------------------------------------------- surfaces and their dispatch
\* the letters of the surface types and of the boundary conditions, for
\* str.capitalize() and str.lower()
LowerCase ==
    <<"a", "c", "d", "e", "f", "g", "i", "l", "n", "o", "r", "s", "t", "u", "w">>
UpperCase ==
    <<"A", "C", "D", "E", "F", "G", "I", "L", "N", "O", "R", "S", "T", "U", "W">>

\* c.upper() and c.lower() of one character
upper(c) ==
    IF \E i \in 1..Len(LowerCase) : LowerCase[i] = c
    THEN UpperCase[CHOOSE i \in 1..Len(LowerCase) : LowerCase[i] = c]
    ELSE c
lower(c) ==
    IF \E i \in 1..Len(UpperCase) : UpperCase[i] = c
    THEN LowerCase[CHOOSE i \in 1..Len(UpperCase) : UpperCase[i] = c]
    ELSE c

\* s.capitalize(): first character upper case, the rest lower case
capitalize(s) ==
    [i \in 1..Len(s) |-> IF i = 1 THEN upper(s[i]) ELSE lower(s[i])]

Wall == <<"W", "a", "l", "l">>
Floor == <<"F", "l", "o", "o", "r">>
Roof == <<"R", "o", "o", "f">>
Ceiling == <<"C", "e", "i", "l", "i", "n", "g">>

\* surf.key.upper() for the keys of the zone surfaces
key_upper(k) ==
    CASE k = "InternalMass" -> "INTERNALMASS"
      [] k = "WindowShadingControl" -> "WINDOWSHADINGCONTROL"
      [] k = "BuildingSurface:Detailed" -> "BUILDINGSURFACE:DETAILED"
      [] OTHER -> k

\* the keys surface_dispatcher leaves out
ExcludedKeys == {"INTERNALMASS", "WINDOWSHADINGCONTROL"}

\* the dispatch dict with the basement walls handled as ground
dispatch_basement_to_ground ==
    [p \in {<<Wall, "Outdoors">>, <<Wall, "Ground">>,
            <<Floor, "Ground">>, <<Floor, "Outdoors">>, <<Floor, "Foundation">>,
            <<Floor, "Surface">>, <<Floor, "Adiabatic">>, <<Floor, "Zone">>,
            <<Wall, "Adiabatic">>, <<Wall, "Surface">>, <<Wall, "Zone">>,
            <<Roof, "Outdoors">>, <<Roof, "Zone">>, <<Roof, "Surface">>,
            <<Ceiling, "Adiabatic">>, <<Ceiling, "Surface">>, <<Ceiling, "Zone">>} |->
        CASE p = <<Wall, "Outdoors">> -> "_do_facade"
          [] p = <<Wall, "Ground">> -> "_do_ground"
          [] p[1] = Floor /\ p[2] \in {"Ground", "Outdoors", "Foundation"} -> "_do_ground"
          [] p[1] = Wall -> "_do_partition"
          [] p[1] = Roof -> "_do_roof"
          [] OTHER -> "_do_slab"]

\* the dispatch dict of surface_dispatcher
dispatch ==
    <<Wall, "Outdoors">> :> "_do_facade" @@
    <<Floor, "Ground">> :> "_do_ground" @@
    <<Floor, "Outdoors">> :> "_do_ground" @@
    <<Floor, "Foundation">> :> "_do_ground" @@
    <<Floor, "Surface">> :> "_do_slab" @@
    <<Floor, "Adiabatic">> :> "_do_slab" @@
    <<Floor, "Zone">> :> "_do_slab" @@
    <<Wall, "Adiabatic">> :> "_do_partition" @@
    <<Wall, "Surface">> :> "_do_partition" @@
    <<Wall, "Zone">> :> "_do_partition" @@
    <<Wall, "Ground">> :> "_do_basement" @@
    <<Roof, "Outdoors">> :> "_do_roof" @@
    <<Roof, "Zone">> :> "_do_roof" @@
    <<Roof, "Surface">> :> "_do_roof" @@
    <<Ceiling, "Adiabatic">> :> "_do_slab" @@
    <<Ceiling, "Surface">> :> "_do_slab" @@
    <<Ceiling, "Zone">> :> "_do_slab"

\* OpaqueConstruction.from_epbunch(...) with oc.area and oc.Surface_Type set
Tagged(surf, tag) ==
    [name |-> surf.Construction_Name, area |-> surf.area, Surface_Type |-> tag]

\* ZoneConstructionSet._do_facade, _do_ground, _do_partition, _do_roof,
\* _do_slab, _do_basement: the construction, None for a partition whose
\* construction is not in the file
do_handler(h, surf) ==
    CASE h = "_do_facade" -> Tagged(surf, "Facade")
      [] h = "_do_ground" -> Tagged(surf, "Ground")
      [] h = "_do_partition" ->
            IF surf.constructed THEN Tagged(surf, "Partition") ELSE None
      [] h = "_do_roof" -> Tagged(surf, "Roof")
      [] h = "_do_slab" -> Tagged(surf, "Slab")
      [] h = "_do_basement" -> Tagged(surf, "Facade")

\* a dispatcher that yields nothing for a pair it does not know
surface_dispatcher_skip_unknown(surf) ==
    IF key_upper(surf.key) \in ExcludedKeys THEN [exc |-> "", out |-> <<>>]
    ELSE IF <<capitalize(surf.Surface_Type), surf.Outside_Boundary_Condition>>
              \notin DOMAIN dispatch
         THEN [exc |-> "", out |-> <<>>]
    ELSE [exc |-> "",
          out |-> <<do_handler(
                      dispatch[<<capitalize(surf.Surface_Type),
                                 surf.Outside_Boundary_Condition>>], surf)>>]

\* surface_dispatcher(surf, zone): [exc, out], out the sequence of what the
\* generator yields
surface_dispatcher(surf) ==
    IF key_upper(surf.key) \in ExcludedKeys THEN [exc |-> "", out |-> <<>>]
    ELSE IF <<capitalize(surf.Surface_Type), surf.Outside_Boundary_Condition>>
              \notin DOMAIN dispatch
         THEN [exc |-> "NotImplementedError", out |-> <<>>]
    ELSE [exc |-> "",
          out |-> <<do_handler(
                      dispatch[<<capitalize(surf.Surface_Type),
                                 surf.Outside_Boundary_Condition>>], surf)>>]

\* the five slots of a construction set
Slots == {"Facade", "Ground", "Partition", "Roof", "Slab"}

\* facade, ground, partition, roof, slab = [], [], [], [], []
EmptyGroups == [g \in Slots |-> <<>>]

\* the body of the loops of from_zone for one dispatched construction
AppendTo(groups, oc) ==
    IF oc = None THEN groups
    ELSE [groups EXCEPT ![oc.Surface_Type] = Append(@, oc)]

\* the loop of from_zone over the surfaces from the i-th on: [exc, groups]
RECURSIVE from_zone_loop(_, _, _)
from_zone_loop(surfs, i, groups) ==
    IF i > Len(surfs) THEN [exc |-> "", groups |-> groups]
    ELSE IF surface_dispatcher(surfs[i]).exc # ""
         THEN [exc |-> surface_dispatcher(surfs[i]).exc, groups |-> groups]
    ELSE IF surface_dispatcher(surfs[i]).out = <<>>
         THEN from_zone_loop(surfs, i + 1, groups)
    ELSE from_zone_loop(surfs, i + 1,
                        AppendTo(groups, surface_dispatcher(surfs[i]).out[1]))

\* the groups of from_zone for the surfaces of a zone
from_zone_groups(surfs) == from_zone_loop(surfs, 1, EmptyGroups)

\* reduce(OpaqueConstruction.combine, set(group)) from the i-th element on,
\* acc the construction so far
RECURSIVE reduce_combine(_, _, _)
reduce_combine(group, i, acc) ==
    IF i > Len(group) THEN acc
    ELSE reduce_combine(group, i + 1,
                        Aggregate_combine(acc, Str(<<group[i].name>>)).v)

\* the slot from_zone gives the constructor for one group
slot_of_group(group) ==
    IF group = <<>> THEN GenericConstruction
    ELSE reduce_combine(group, 2, Str(<<group[1].name>>))

\* a construction set as far as its slots and the zone it was given go
SlotsOf(f, zone) == [exc |-> "", built |-> TRUE, slots |-> f, zone |-> zone]

\* ZoneConstructionSet.from_zone(zone) for a zone of the given surfaces
from_zone(surfs) ==
    IF from_zone_groups(surfs).exc # ""
    THEN [exc |-> from_zone_groups(surfs).exc, built |-> FALSE]
    ELSE SlotsOf([g \in Slots |-> slot_of_group(from_zone_groups(surfs).groups[g])],
                 TRUE)

\* ZoneConstructionSet.validate(): a slot that is None gets the generic
\* construction
validate(z) ==
    SlotsOf([g \in Slots |-> IF z.slots[g] = None THEN GenericConstruction
                             ELSE z.slots[g]],
            z.zone)

\* the surfaces of the idf: building surfaces of every type and boundary
\* condition, walls between zones whose construction is not in the file
\* ("Air Wall"), an internal mass and a shading control
Surfaces ==
    { [key |-> "BuildingSurface:Detailed", Surface_Type |-> t,
       Outside_Boundary_Condition |-> b, Construction_Name |-> c,
       constructed |-> TRUE, area |-> 10] :
         t \in {Wall, <<"W", "A", "L", "L">>, Floor, Roof, Ceiling},
         b \in {"Outdoors", "Ground", "Foundation", "Surface", "Adiabatic", "Zone"},
         c \in {"C1", "C2"} }
    \cup
    { [key |-> "BuildingSurface:Detailed", Surface_Type |-> Wall,
       Outside_Boundary_Condition |-> b, Construction_Name |-> "Air Wall",
       constructed |-> FALSE, area |-> 10] :
         b \in {"Surface", "Adiabatic", "Zone"} }
    \cup
    { [key |-> k, Surface_Type |-> <<>>, Outside_Boundary_Condition |-> "",
       Construction_Name |-> "C1", constructed |-> TRUE, area |-> 10] :
         k \in {"InternalMass", "WindowShadingControl"} }

\* the longest list of surfaces of a zone
MaxSurfaces == 2

\* zone._zonesurfaces
ZoneSurfaceLists ==
    UNION { [1..n -> Surfaces] : n \in 0..MaxSurfaces }

\* ZoneConstructionSet(Name=..., Facade=..., ...): slots as given, None by
\* default
ConstructedSlots == [Slots -> {None, Str(<<"C1">>)}]

InitFromZone ==
    /\ heap = <<>>
    /\ created_obj = EmptyDict
    /\ cls_cache = [c \in Classes |-> EmptyDict]
    /\ zonesurfaces \in ZoneSurfaceLists
    /\ z_set = NotBuilt
    /\ umi_template = None
    /\ data_dict = None
    /\ reads = 0

\* ZoneConstructionSet.from_zone(zone)
FromZone ==
    /\ z_set = NotBuilt
    /\ z_set' = from_zone(zonesurfaces)
    /\ UNCHANGED <<zonesurfaces, heap_vars, library_vars>>

\* ZoneConstructionSet(Name=..., **slots)
NewConstructionSet ==
    /\ z_set = NotBuilt
    /\ zonesurfaces = <<>>
    /\ \E f \in ConstructedSlots : z_set' = SlotsOf(f, FALSE)
    /\ UNCHANGED <<zonesurfaces, heap_vars, library_vars>>

\* z_set.validate()
Validate ==
    /\ z_set.built
    /\ z_set' = validate(z_set)
    /\ UNCHANGED <<zonesurfaces, heap_vars, library_vars>>

NextFromZone ==
    \/ FromZone
    \/ NewConstructionSet
    \/ Validate

SpecFromZone == InitFromZone /\ [][NextFromZone]_vars

\* ------------------------------------------------- the template library
\* the category arrays of the document, in the order to_dict declares them
CategoryOrder ==
    <<"GasMaterials", "GlazingMaterials", "OpaqueMaterials",
      "OpaqueConstructions", "WindowConstructions", "StructureDefinitions",
      "DaySchedules", "WeekSchedules", "YearSchedules",
      "DomesticHotWaterSettings", "VentilationSettings", "ZoneConditionings",
      "ZoneConstructionSets", "ZoneLoads", "Zones", "WindowSettings",
      "BuildingTemplates">>
Categories == {CategoryOrder[i] : i \in 1..Len(CategoryOrder)}

\* obj.__class__.__name__ + "s"
catname(cls) == cls \o "s"

\* the template classes the library model follows; MaterialLayer is kept as
\* a value inside Layers
TemplateClasses ==
    {"GasMaterial", "GlazingMaterial", "OpaqueConstruction",
     "WindowConstruction", "WindowSetting", "ZoneConstructionSet", "Zone",
     "BuildingTemplate"}

\* the most objects the library operations allocate
MaxLibObj == 32
\* the most libraries read (read_file, read_idf) in one run
MaxReads == 2

\* id(self) of the object at address a: an integer no document uses as an id
IdBase == 1000

Digit == <<"0", "1", "2", "3", "4", "5", "6", "7", "8", "9">>

\* str(n) of a natural number, as a sequence of characters
RECURSIVE str_int(_)
str_int(n) ==
    IF n < 10 THEN <<Digit[n + 1]>>
    ELSE str_int(n \div 10) \o <<Digit[(n % 10) + 1]>>

\* str(self.id), "{}".format(self.id): the decimal digits of id(self), or the
\* string the document gave
str_id(v) == IF v.t = "addr" THEN Str(str_int(IdBase + v.v)) ELSE v

\* {"$ref": id}
DRef(id) == [t |-> "$ref", ref |-> id]

\* MaterialLayer(Material, Thickness)
MaterialLayer(m, th) == [t |-> "layer", Material |-> m, Thickness |-> th]

\* the attributes of a class that hold template objects or lists of them,
\* in the order __init__ assigns them (the order of obj.__dict__)
EntityAttrs(cls) ==
    CASE cls = "BuildingTemplate" -> <<"Core", "Perimeter", "Windows">>
      [] cls = "Zone" -> <<"Constructions", "Windows">>
      [] cls = "ZoneConstructionSet" -> <<"Slab">>
      [] cls = "WindowSetting" -> <<"Construction">>
      [] cls = "WindowConstruction" -> <<"Layers">>
      [] OTHER -> <<>>

\* the attributes from_json / from_dict resolve with get_ref, in the order
\* of the calls, for the classes the model follows (a document gives a Zone
\* its Conditioning, DomesticHotWater, InternalMassConstruction, Loads and
\* Ventilation and a ZoneConstructionSet its Facade, Ground, Partition and
\* Roof, which resolve; the model follows Constructions and Slab)
RefAttrs(cls) ==
    CASE cls = "BuildingTemplate" -> <<"Core", "Perimeter", "Windows">>
      [] cls = "Zone" -> <<"Constructions">>
      [] cls = "ZoneConstructionSet" -> <<"Slab">>
      [] cls = "WindowSetting" -> <<"Construction">>
      [] OTHER -> <<>>

\* the set of the elements of a sequence
Range(s) == {s[i] : i \in 1..Len(s)}

\* __init__ of a template class: UmiBase.__init__ (Name, idf, id) and the
\* attributes of the class as the keywords give them
Template_init(cls, a, kw) ==
    [k \in {"Name", "idf", "id"} \cup Range(EntityAttrs(cls))
           \cup (IF cls = "ZoneConstructionSet" THEN {"_belongs_to_zone"} ELSE {})
      |->
        CASE k = "Name" -> kw.Name
          [] k = "idf" -> Get(kw, "idf", None)
          [] k = "id" -> Get(kw, "$id", IdOf(a))
          [] k = "_belongs_to_zone" -> Get(kw, "zone", None)
          [] OTHER -> Get(kw, k, None)]

\* the registry key of a new object: (class name, Name) under Unique, and
\* hash((Name, id(idf))) for a Zone
Template_key(cls, kw) ==
    IF cls = "Zone" THEN Zone_hash(kw.Name, Get(kw, "idf", None))
    ELSE UniqueKey(cls, kw.Name)

\* a new object of the class, registered under its key
Template_new(w, cls, kw) ==
    IF Len(w.heap) >= MaxLibObj THEN Raises(w, HeapFull)
    ELSE Returns([heap |-> Append(w.heap,
                              [cls |-> cls,
                               d |-> Template_init(cls, Len(w.heap) + 1, kw)]),
                  created_obj |-> Put(w.created_obj, Template_key(cls, kw),
                                      Len(w.heap) + 1),
                  cls_cache |-> IF cls \in DOMAIN w.cls_cache
                                THEN [w.cls_cache EXCEPT
                                        ![cls] = Put(@, Template_key(cls, kw),
                                                     Len(w.heap) + 1)]
                                ELSE w.cls_cache],
                 Len(w.heap) + 1)

\* cls(**kw): Unique.__call__ for the classes built with Unique (the
\* registered instance of the Name if there is one), a plain call for Zone
Template_call(w, cls, kw) ==
    IF cls # "Zone" /\ UniqueKey(cls, kw.Name) \in DOMAIN w.created_obj
    THEN Returns(w, w.created_obj[UniqueKey(cls, kw.Name)])
    ELSE Template_new(w, cls, kw)

\* the registered objects (the values of all_objects)
Registered(w) == {w.created_obj[k] : k \in DOMAIN w.created_obj}

Min(S) == CHOOSE x \in S : \A y \in S : x <= y

\* a get_ref that returns None when nothing matches
get_ref_or_none(w, ref) ==
    LET matching == {a \in Registered(w) : Attr(w, a, "id") = ref.ref}
    IN  IF ref = None THEN [exc |-> "TypeError", ret |-> 0]
        ELSE IF matching = {} THEN [exc |-> "", ret |-> 0]
        ELSE [exc |-> "", ret |-> Min(matching)]

\* UmiBase.get_ref(ref): the first registered object whose id equals
\* ref["$ref"] (objects are registered in the order they are made);
\* [...][0] raises IndexError when there is none, ref["$ref"] raises
\* TypeError when ref is None
get_ref(w, ref) ==
    LET matching == {a \in Registered(w) : Attr(w, a, "id") = ref.ref}
    IN  IF ref = None THEN [exc |-> "TypeError", ret |-> 0]
        ELSE IF matching = {} THEN [exc |-> "IndexError", ret |-> 0]
        ELSE [exc |-> "", ret |-> Min(matching)]

\* the assignments obj.attr = obj.get_ref(kwargs.get(attr, None)) of
\* from_json / from_dict, from the i-th attribute on
RECURSIVE resolve_refs(_, _, _, _, _)
resolve_refs(w, a, attrs, i, kw) ==
    LET found == get_ref(w, Get(kw, attrs[i], None))
    IN  IF i > Len(attrs) THEN Returns(w, a)
        ELSE IF found.exc # "" THEN Raises(w, found.exc)
        ELSE resolve_refs(SetDict(w, a, Put(Obj(w, a).d, attrs[i], Ref(found.ret))),
                          a, attrs, i + 1, kw)

\* [MaterialLayer(wc.get_ref(layer["Material"]), layer["Thickness"])
\*  for layer in layers], from the i-th layer on: [exc, out]
RECURSIVE resolve_layers(_, _, _)
resolve_layers(w, layers, i) ==
    LET found == get_ref(w, layers[i].Material)
        rest == resolve_layers(w, layers, i + 1)
    IN  IF i > Len(layers) THEN [exc |-> "", out |-> <<>>]
        ELSE IF found.exc # "" THEN [exc |-> found.exc, out |-> <<>>]
        ELSE IF rest.exc # "" THEN rest
        ELSE [exc |-> "",
              out |-> <<MaterialLayer(Ref(found.ret), layers[i].Thickness)>>
                      \o rest.out]

\* WindowConstruction.from_json after the constructor: wc.Layers
window_layers(w, a, kw) ==
    LET layers == resolve_layers(w, kw.Layers.l, 1)
    IN  IF Get(kw, "Layers", None) = None THEN Raises(w, "TypeError")
        ELSE IF layers.exc # "" THEN Raises(w, layers.exc)
        ELSE Returns(SetDict(w, a, Put(Obj(w, a).d, "Layers", List(layers.out))), a)

\* from_json / from_dict after the constructor returned r
from_json_made(r, cls, kw) ==
    IF r.exc # "" THEN r
    ELSE IF cls = "WindowConstruction" THEN window_layers(r.w, r.ret, kw)
    ELSE resolve_refs(r.w, r.ret, RefAttrs(cls), 1, kw)

\* cls.from_json(**store), cls.from_dict(**store) (cls(**store) for the
\* classes without references)
from_json(w, cls, kw) == from_json_made(Template_call(w, cls, kw), cls, kw)

\* the class whose objects a category array holds ("" for the categories
\* the model has no class for; their arrays stay empty)
ClassOrder ==
    <<"GasMaterial", "GlazingMaterial", "", "OpaqueConstruction",
      "WindowConstruction", "", "", "", "", "", "", "",
      "ZoneConstructionSet", "", "Zone", "WindowSetting", "BuildingTemplate">>

\* a library with nothing in it: UmiTemplateLibrary(name)
EmptyLibrary == [c \in Categories |-> <<>>]

\* idf = IDF(prep_outputs=False): the IDF object a read_file call makes
NewIdf(w) == [t |-> "idf", at |-> Len(w.heap)]

\* [cls.from_dict(**store, idf=idf) for store in datastore[category]], from
\* the i-th store on: the world, the exception and the objects made
RECURSIVE read_stores(_, _, _, _, _, _)
read_stores(w, cls, stores, i, idf, out) ==
    LET made == from_json(w, cls, stores[i] @@ [idf |-> idf])
    IN  IF i > Len(stores) THEN [w |-> w, exc |-> "", out |-> out]
        ELSE IF made.exc # "" THEN [w |-> made.w, exc |-> made.exc, out |-> out]
        ELSE read_stores(made.w, cls, stores, i + 1, idf, Append(out, made.ret))

\* the category assignments of read_file from the k-th category on: the
\* world, the exception and the library t
RECURSIVE read_categories(_, _, _, _, _)
read_categories(w, datastore, k, idf, t) ==
    LET read == read_stores(w, ClassOrder[k], datastore[CategoryOrder[k]], 1,
                            idf, <<>>)
    IN  IF k > Len(CategoryOrder) THEN [w |-> w, exc |-> "", t |-> t]
        ELSE IF read.exc # "" THEN [w |-> read.w, exc |-> read.exc, t |-> None]
        ELSE read_categories(read.w, datastore, k + 1, idf,
                             [t EXCEPT ![CategoryOrder[k]] = read.out])

\* UmiTemplateLibrary.read_file(filename) for a file holding datastore
read_file(w, datastore) ==
    read_categories(w, datastore, 1, NewIdf(w), EmptyLibrary)

\* the characters of the names, in the order of their code points
CodePoints ==
    <<"0", "1", "2", "3", "4", "5", "6", "7", "8", "9",
      "A", "B", "C", "D", "G", "I", "L", "O", "P", "R", "S", "W", "Z", "_">>
CodePoint(c) == CHOOSE i \in 1..Len(CodePoints) : CodePoints[i] = c

\* x < y for two Python strings
RECURSIVE str_lt(_, _)
str_lt(x, y) ==
    IF y = <<>> THEN FALSE
    ELSE IF x = <<>> THEN TRUE
    ELSE IF CodePoint(Head(x)) # CodePoint(Head(y))
         THEN CodePoint(Head(x)) < CodePoint(Head(y))
    ELSE str_lt(Tail(x), Tail(y))

\* the entry put in its place in a list sorted by Name, after the entries
\* that are not greater (sorted() is stable)
RECURSIVE insert_sorted(_, _)
insert_sorted(l, e) ==
    IF l = <<>> THEN <<e>>
    ELSE IF str_lt(e.Name.s, Head(l).Name.s) THEN <<e>> \o l
    ELSE <<Head(l)>> \o insert_sorted(Tail(l), e)

\* sorted(entries, key=lambda x: x["Name"])
RECURSIVE sorted(_)
sorted(l) ==
    IF l = <<>> THEN <<>>
    ELSE insert_sorted(sorted(SubSeq(l, 1, Len(l) - 1)), l[Len(l)])

\* the attribute names of the model that start with an underscore
UnderscoreAttrs ==
    {"_belongs_to_zone", "_predecessors", "_epbunch", "_zonesurfaces", "_area",
     "_volume"}

\* a test that holds of no key
startswith_nothing(key) == FALSE

\* key.startswith("_")
startswith_underscore(key) == key \in UnderscoreAttrs

\* only the object of a reference, the lists left out
Held_without_lists(key, v) ==
    CASE v.t = "ref" -> IF startswith_underscore(key) THEN <<>> ELSE <<v.a>>
      [] OTHER -> <<>>

\* the objects recursive_json goes on to for one item of obj.__dict__, in
\* order: the object of a reference whose key has no underscore, and, for a
\* list under any key but all_objects, the Material every MaterialLayer of
\* the list holds
Held(key, v) ==
    CASE v.t = "ref" -> IF startswith_underscore(key) THEN <<>> ELSE <<v.a>>
      [] v.t = "list" -> IF key = "all_objects" THEN <<>>
                         ELSE [i \in 1..Len(v.l) |-> v.l[i].Material.a]
      [] OTHER -> <<>>

\* the keys of obj.__dict__ while it is gone through, in the order the
\* attributes were set (cores and perims of a building are taken out
\* before)
DictOrder(w, a) ==
    SelectSeq(<<"Name", "idf", "id">> \o EntityAttrs(Obj(w, a).cls)
                \o <<"_belongs_to_zone">>,
              LAMBDA k : k \in DOMAIN Obj(w, a).d)

\* the objects recursive_json goes on to from obj, in the order of
\* obj.__dict__
RECURSIVE children_from(_, _, _, _)
children_from(w, a, attrs, i) ==
    IF i > Len(attrs) THEN <<>>
    ELSE Held(attrs[i], Attr(w, a, attrs[i])) \o children_from(w, a, attrs, i + 1)
children(w, a) == children_from(w, a, DictOrder(w, a), 1)

\* a reference attribute of to_json: {"$ref": str(child.id)}; reading .id of
\* None raises AttributeError
ref_missing(w, a) ==
    \E i \in 1..Len(RefAttrs(Obj(w, a).cls)) :
        Attr(w, a, RefAttrs(Obj(w, a).cls)[i]).t # "ref"

\* layer.to_dict() for every layer
layers_to_dict(w, layers) ==
    [i \in 1..Len(layers) |->
        [Material |-> DRef(str_id(Attr(w, layers[i].Material.a, "id"))),
         Thickness |-> layers[i].Thickness]]

\* obj.to_json(): "$id", Name, the references and the layers
to_json(w, a) ==
    [k \in {"$id", "Name"} \cup Range(RefAttrs(Obj(w, a).cls))
           \cup (IF Obj(w, a).cls = "WindowConstruction" THEN {"Layers"} ELSE {})
      |->
        CASE k = "$id" -> str_id(Attr(w, a, "id"))
          [] k = "Name" -> Attr(w, a, "Name")
          [] k = "Layers" -> List(layers_to_dict(w, Attr(w, a, "Layers").l))
          [] OTHER -> DRef(str_id(Attr(w, Attr(w, a, k).a, "id")))]

\* the document and the ids written so far
EmptyDocument == [c \in Categories |-> <<>>]

\* how deep the recursion of recursive_json may go
MaxDepth == 40

\* recursive_json(obj) for the objects on the stack, the first next: an
\* object of a category whose id is not in jsonized is written to the array
\* of its category and its id noted; then, written or not, the objects it
\* holds are gone through
RECURSIVE recursive_json(_, _, _, _, _)
recursive_json(w, stack, doc, jsonized, fuel) ==
    IF stack = <<>> THEN [exc |-> "", doc |-> doc, jsonized |-> jsonized]
    ELSE IF fuel = 0 THEN [exc |-> "RecursionError", doc |-> doc, jsonized |-> jsonized]
    ELSE IF /\ catname(Obj(w, Head(stack)).cls) \in Categories
            /\ Attr(w, Head(stack), "id") \notin jsonized
         THEN IF ref_missing(w, Head(stack))
              THEN [exc |-> "AttributeError", doc |-> doc, jsonized |-> jsonized]
              ELSE recursive_json(
                       w, children(w, Head(stack)) \o Tail(stack),
                       [doc EXCEPT ![catname(Obj(w, Head(stack)).cls)] =
                            Append(@, to_json(w, Head(stack)))],
                       jsonized \cup {Attr(w, Head(stack), "id")}, fuel - 1)
    ELSE recursive_json(w, children(w, Head(stack)) \o Tail(stack), doc,
                        jsonized, fuel - 1)

\* cores = bld.__dict__.pop("cores", None);
\* perims = bld.__dict__.pop("perims", None)
without_zones(w, bld) ==
    SetDict(w, bld, Pop(Pop(Obj(w, bld).d, "cores"), "perims"))

\* bld.cores = cores; bld.perims = perims, d the __dict__ of bld before the
\* two were taken out
put_back(w, bld, d) ==
    SetDict(w, bld, Update(Obj(w, bld).d,
                           [cores |-> Get(d, "cores", None),
                            perims |-> Get(d, "perims", None)]))

\* the loop over self.BuildingTemplates from the i-th on (all_zones False):
\* cores and perims are taken out, the building is gone through, and the
\* two are put back; an exception of recursive_json leaves the loop at once
RECURSIVE walk_from(_, _, _, _, _)
walk_from(w, blds, i, doc, jsonized) ==
    LET r == recursive_json(without_zones(w, blds[i]), <<blds[i]>>, doc,
                            jsonized, MaxDepth)
    IN  IF i > Len(blds) THEN [w |-> w, exc |-> "", doc |-> doc]
        ELSE IF r.exc # ""
             THEN [w |-> without_zones(w, blds[i]), exc |-> r.exc, doc |-> doc]
        ELSE walk_from(put_back(without_zones(w, blds[i]), blds[i],
                                Obj(w, blds[i]).d),
                       blds, i + 1, r.doc, r.jsonized)

walk_buildings(w, t) ==
    walk_from(w, t["BuildingTemplates"], 1, EmptyDocument, {})

\* every array sorted by Name
sort_document(doc) == [c \in Categories |-> sorted(doc[c])]

NameAIR == Str(<<"A", "I", "R">>)

\* if not data_dict["GasMaterials"]:
\*     data_dict["GasMaterials"].append(GasMaterial(Name="AIR").to_json())
add_air(w, doc) ==
    LET air == Template_call(w, "GasMaterial", [Name |-> NameAIR])
    IN  IF doc["GasMaterials"] # <<>> THEN [w |-> w, exc |-> "", doc |-> doc]
        ELSE IF air.exc # "" THEN [w |-> w, exc |-> air.exc, doc |-> None]
        ELSE [w |-> air.w, exc |-> "",
              doc |-> [doc EXCEPT !["GasMaterials"] =
                         Append(@, to_json(air.w, air.ret))]]

\* UmiTemplateLibrary.to_dict(): the world, the exception and the document
to_dict(w, t) ==
    LET walked == walk_buildings(w, t)
    IN  IF walked.exc # "" THEN [w |-> walked.w, exc |-> walked.exc, doc |-> None]
        ELSE add_air(walked.w, sort_document(walked.doc))

\* ------------------------------------------------------ reduction of an idf
\* the objects made so far by a reduction: the world, the exception and the
\* addresses by role
Building(w) == [w |-> w, exc |-> "", env |-> EmptyDict]

\* the object cls(**kw) added to the building under a role
Built(b, role, r) ==
    IF r.exc # "" THEN [w |-> r.w, exc |-> r.exc, env |-> b.env]
    ELSE [w |-> r.w, exc |-> "", env |-> Put(b.env, role, r.ret)]

\* the materials of the window of the idf: the glazing, and the gas between
\* the panes when the window has one
with_glazing(b, f) ==
    Built(b, "glazing",
          Template_call(b.w, "GlazingMaterial", [Name |-> f.glazing]))
with_gas(b, f) ==
    IF b.exc # "" \/ f.gas = None THEN b
    ELSE Built(b, "gas", Template_call(b.w, "GasMaterial", [Name |-> f.gas]))

\* WindowConstruction.layers()
layers_of(b) ==
    <<MaterialLayer(Ref(b.env["glazing"]), Num(3, 1000))>>
    \o (IF "gas" \in DOMAIN b.env
        THEN <<MaterialLayer(Ref(b.env["gas"]), Num(6, 1000)),
               MaterialLayer(Ref(b.env["glazing"]), Num(3, 1000))>>
        ELSE <<>>)

with_window(b, f) ==
    IF b.exc # "" THEN b
    ELSE Built(b, "wc",
               Template_call(b.w, "WindowConstruction",
                             [Name |-> Str(<<"W", "C">> \o f.tag),
                              Layers |-> List(layers_of(b))]))
with_setting(b, f) ==
    IF b.exc # "" THEN b
    ELSE Built(b, "ws",
               Template_call(b.w, "WindowSetting",
                             [Name |-> Str(<<"W", "S">> \o f.tag),
                              Construction |-> Ref(b.env["wc"])]))
with_construction(b, f) ==
    IF b.exc # "" THEN b
    ELSE Built(b, "oc",
               Template_call(b.w, "OpaqueConstruction", [Name |-> f.opaque]))
with_set(b, f) ==
    IF b.exc # "" THEN b
    ELSE Built(b, "zcs",
               Template_call(b.w, "ZoneConstructionSet",
                             [Name |-> Str(<<"Z", "S">> \o f.tag),
                              Slab |-> Ref(b.env["oc"])]))
\* attr["Constructions"]._belongs_to_zone = new_obj and
\* attr["Windows"]._belongs_to_zone = new_obj of Zone.combine, r the
\* outcome of the constructor of the zone
belongs_to(b, r) ==
    IF r.exc # "" THEN r
    ELSE Returns(SetDict(SetDict(r.w, b.env["zcs"],
                                 Put(Obj(r.w, b.env["zcs"]).d,
                                     "_belongs_to_zone", Ref(r.ret))),
                         b.env["ws"],
                         Put(Obj(r.w, b.env["ws"]).d,
                             "_belongs_to_zone", Ref(r.ret))),
                 r.ret)
with_zone(b, f, role, letter) ==
    IF b.exc # "" THEN b
    ELSE Built(b, role,
               belongs_to(b,
                   Template_call(b.w, "Zone",
                                 [Name |-> Str(<<letter>> \o f.tag),
                                  idf |-> Str(<<"I">> \o f.tag),
                                  Constructions |-> Ref(b.env["zcs"]),
                                  Windows |-> Ref(b.env["ws"])])))
\* the zones the core and the perimeter zone of the building were made
\* of: bld.cores and bld.perims, r the outcome of the constructor
with_zone_lists(b, r) ==
    IF r.exc # "" THEN r
    ELSE Returns(SetDict(r.w, r.ret,
                         Update(Obj(r.w, r.ret).d,
                                [cores |-> List(<<Ref(b.env["core"])>>),
                                 perims |-> List(<<Ref(b.env["perim"])>>)])),
                 r.ret)
with_template(b, f) ==
    IF b.exc # "" THEN b
    ELSE Built(b, "bld",
               with_zone_lists(b,
                   Template_call(b.w, "BuildingTemplate",
                                 [Name |-> Str(<<"B">> \o f.tag),
                                  Core |-> Ref(b.env["core"]),
                                  Perimeter |-> Ref(b.env["perim"]),
                                  Windows |-> Ref(b.env["ws"])])))

\* BuildingTemplate.from_idf(idf): the reduced building, its core and
\* perimeter zones sharing the construction set and the window setting,
\* which belong to the zone made last
from_idf(w, f) ==
    with_template(
      with_zone(
        with_zone(
          with_set(
            with_construction(
              with_setting(
                with_window(with_gas(with_glazing(Building(w), f), f), f), f),
              f), f),
          f, "core", "C"),
        f, "perim", "P"),
      f)

\* UmiTemplateLibrary.template_complexity_reduction(idfname, epw): an
\* exception for a file that cannot be reduced
template_complexity_reduction(w, f) ==
    LET b == from_idf(w, f)
    IN  IF ~f.valid THEN Raises(w, "Exception")
        ELSE IF b.exc # "" THEN Raises(b.w, b.exc)
        ELSE Returns(b.w, b.env["bld"])

\* a result of parallel_process: the BuildingTemplate or the exception
Result(r) == IF r.exc # "" THEN [exc |-> r.exc, bld |-> 0]
             ELSE [exc |-> "", bld |-> r.ret]

\* the keys of in_dict, in the order a dict keeps them: a file named twice
\* in idf_files is one key, at the place of its first occurrence
RECURSIVE in_dict(_, _, _)
in_dict(idf_files, i, keys) ==
    IF i > Len(idf_files) THEN keys
    ELSE IF \E j \in 1..Len(keys) : keys[j] = idf_files[i]
         THEN in_dict(idf_files, i + 1, keys)
    ELSE in_dict(idf_files, i + 1, Append(keys, idf_files[i]))

\* parallel_process(in_dict, template_complexity_reduction): the world and
\* the results, from the i-th task on. The tasks run one after the other in
\* the calling process, and an exception of a task is its result; the order
\* in which the results come back is the order of the tasks, and every
\* order of the tasks is among the batches read_idf is given.
RECURSIVE parallel_process(_, _, _, _)
parallel_process(w, idf_files, i, results) ==
    LET r == template_complexity_reduction(w, idf_files[i])
    IN  IF i > Len(idf_files) THEN [w |-> w, results |-> results]
        ELSE parallel_process(r.w, idf_files, i + 1, Append(results, Result(r)))

\* a filter that stops at the first exception
RECURSIVE successful_until_failure(_)
successful_until_failure(results) ==
    IF results = <<>> THEN <<>>
    ELSE IF Head(results).exc # "" THEN <<>>
    ELSE <<Head(results).bld>> \o successful_until_failure(Tail(results))

\* [res for res in results if not isinstance(res, Exception)]
RECURSIVE successful(_)
successful(results) ==
    IF results = <<>> THEN <<>>
    ELSE IF Head(results).exc # "" THEN successful(Tail(results))
    ELSE <<Head(results).bld>> \o successful(Tail(results))

\* the part of read_idf after parallel_process: the exception and the
\* library
read_idf_results(results) ==
    IF \A i \in 1..Len(results) : results[i].exc # ""
    THEN [exc |-> "Exception", t |-> None]
    ELSE [exc |-> "",
          t |-> [EmptyLibrary EXCEPT !["BuildingTemplates"] = successful(results)]]

\* UmiTemplateLibrary.read_idf(idf_files, weather)
read_idf(w, idf_files) ==
    LET p == parallel_process(w, in_dict(idf_files, 1, <<>>), 1, <<>>)
    IN  [w |-> p.w, results |-> p.results,
         exc |-> read_idf_results(p.results).exc,
         t |-> read_idf_results(p.results).t]

\* ------------------------------------------------------- library inputs
\* the idf files handed to read_idf: two buildings that share the glazing
\* and the opaque construction, the second without gas in its window, and a
\* file the reduction fails on
IdfFiles ==
    { [valid |-> TRUE, tag |-> <<"1">>, glazing |-> Str(<<"G", "L">>),
       gas |-> Str(<<"G", "A", "S">>), opaque |-> Str(<<"O", "C">>)],
      [valid |-> TRUE, tag |-> <<"2">>, glazing |-> Str(<<"G", "L">>),
       gas |-> None, opaque |-> Str(<<"O", "C">>)],
      [valid |-> FALSE, tag |-> <<"3">>, glazing |-> None, gas |-> None,
       opaque |-> None] }

\* the longest batch of idf files
MaxIdfFiles == 3

\* the batches, the empty one among them
IdfFileLists == UNION { [1..n -> IdfFiles] : n \in 0..MaxIdfFiles }

\* an entry of a category array
Entry(id, name) == ("$id" :> Str(id)) @@ [Name |-> Str(name)]
LayerEntry(id) == [Material |-> DRef(Str(id)), Thickness |-> Num(3, 1000)]

\* a library file numbered from the materials up: a building whose window
\* has a gas layer
DocumentA ==
    [EmptyDocument EXCEPT
       !["GasMaterials"] = <<Entry(<<"1">>, <<"G", "A", "S">>)>>,
       !["GlazingMaterials"] = <<Entry(<<"2">>, <<"G", "L">>)>>,
       !["WindowConstructions"] =
           <<Entry(<<"3">>, <<"W", "C", "A">>)
             @@ [Layers |-> List(<<LayerEntry(<<"2">>), LayerEntry(<<"1">>),
                                   LayerEntry(<<"2">>)>>)]>>,
       !["OpaqueConstructions"] = <<Entry(<<"4">>, <<"O", "C", "A">>)>>,
       !["ZoneConstructionSets"] =
           <<Entry(<<"5">>, <<"Z", "S", "A">>) @@ [Slab |-> DRef(Str(<<"4">>))]>>,
       !["Zones"] =
           <<Entry(<<"6">>, <<"C", "A">>) @@ [Constructions |-> DRef(Str(<<"5">>))],
             Entry(<<"7">>, <<"P", "A">>) @@ [Constructions |-> DRef(Str(<<"5">>))]>>,
       !["WindowSettings"] =
           <<Entry(<<"8">>, <<"W", "S", "A">>) @@ [Construction |-> DRef(Str(<<"3">>))]>>,
       !["BuildingTemplates"] =
           <<Entry(<<"9">>, <<"B", "A">>)
             @@ [Core |-> DRef(Str(<<"6">>)), Perimeter |-> DRef(Str(<<"7">>)),
                 Windows |-> DRef(Str(<<"8">>))]>>]

\* a library file numbered from the building down: one zone, no gas
DocumentB ==
    [EmptyDocument EXCEPT
       !["BuildingTemplates"] =
           <<Entry(<<"1">>, <<"B", "B">>)
             @@ [Core |-> DRef(Str(<<"2">>)), Perimeter |-> DRef(Str(<<"2">>)),
                 Windows |-> DRef(Str(<<"3">>))]>>,
       !["Zones"] =
           <<Entry(<<"2">>, <<"C", "B">>) @@ [Constructions |-> DRef(Str(<<"5">>))]>>,
       !["WindowSettings"] =
           <<Entry(<<"3">>, <<"W", "S", "B">>) @@ [Construction |-> DRef(Str(<<"4">>))]>>,
       !["WindowConstructions"] =
           <<Entry(<<"4">>, <<"W", "C", "B">>)
             @@ [Layers |-> List(<<LayerEntry(<<"6">>)>>)]>>,
       !["ZoneConstructionSets"] =
           <<Entry(<<"5">>, <<"Z", "S", "B">>) @@ [Slab |-> DRef(Str(<<"7">>))]>>,
       !["GlazingMaterials"] = <<Entry(<<"6">>, <<"G", "L", "B">>)>>,
       !["OpaqueConstructions"] = <<Entry(<<"7">>, <<"O", "C", "B">>)>>]

\* a file whose zone refers to a construction set that is not in it
DocumentDangling ==
    [EmptyDocument EXCEPT
       !["Zones"] =
           <<Entry(<<"2">>, <<"C", "D">>) @@ [Constructions |-> DRef(Str(<<"5", "0">>))]>>,
       !["BuildingTemplates"] =
           <<Entry(<<"1">>, <<"B", "D">>)
             @@ [Core |-> DRef(Str(<<"2">>)), Perimeter |-> DRef(Str(<<"2">>)),
                 Windows |-> DRef(Str(<<"3">>))]>>]

\* a file whose construction set refers to a zone, which is read after it
DocumentOutOfOrder ==
    [EmptyDocument EXCEPT
       !["ZoneConstructionSets"] =
           <<Entry(<<"3", "1">>, <<"Z", "S", "O">>) @@ [Slab |-> DRef(Str(<<"3", "2">>))]>>,
       !["Zones"] =
           <<Entry(<<"3", "2">>, <<"C", "O">>) @@ [Constructions |-> DRef(Str(<<"3", "1">>))]>>]

Documents == {DocumentA, DocumentB, DocumentDangling, DocumentOutOfOrder}

\* ------------------------------------------------------ library actions
InitLibrary ==
    /\ heap = <<>>
    /\ created_obj = EmptyDict
    /\ cls_cache = [c \in Classes |-> EmptyDict]
    /\ zonesurfaces = <<>>
    /\ z_set = NotBuilt
    /\ umi_template = None
    /\ data_dict = None
    /\ reads = 0

\* umi_template = UmiTemplateLibrary.read_file(filename)
ReadFile ==
    \E datastore \in Documents :
      \E r \in {read_file(World, datastore)} :
        /\ reads < MaxReads
        /\ reads' = reads + 1
        /\ r.exc # HeapFull
        /\ heap' = r.w.heap
        /\ created_obj' = r.w.created_obj
        /\ cls_cache' = r.w.cls_cache
        /\ umi_template' = IF r.exc = "" THEN r.t ELSE umi_template
        /\ UNCHANGED <<data_dict, surface_vars>>

\* umi_template = UmiTemplateLibrary.read_idf(idf_files, weather)
ReadIdf ==
    \E idf_files \in IdfFileLists :
      \E r \in {read_idf(World, idf_files)} :
        /\ reads < MaxReads
        /\ reads' = reads + 1
        /\ \A i \in 1..Len(r.results) : r.results[i].exc # HeapFull
        /\ heap' = r.w.heap
        /\ created_obj' = r.w.created_obj
        /\ cls_cache' = r.w.cls_cache
        /\ umi_template' = IF r.exc = "" THEN r.t ELSE umi_template
        /\ UNCHANGED <<data_dict, surface_vars>>

\* data_dict = umi_template.to_dict()
ToDict ==
    /\ umi_template # None
    /\ \E r \in {to_dict(World, umi_template)} :
        /\ r.exc # HeapFull
        /\ heap' = r.w.heap
        /\ created_obj' = r.w.created_obj
        /\ cls_cache' = r.w.cls_cache
        /\ data_dict' = IF r.exc = "" THEN r.doc ELSE data_dict
    /\ UNCHANGED <<umi_template, reads, surface_vars>>

\* umi_template = UmiTemplateLibrary.read_file(the file data_dict was
\* written to)
ReadBack ==
    /\ data_dict # None
    /\ reads < MaxReads
    /\ reads' = reads + 1
    /\ \E r \in {read_file(World, data_dict)} :
        /\ r.exc # HeapFull
        /\ heap' = r.w.heap
        /\ created_obj' = r.w.created_obj
        /\ cls_cache' = r.w.cls_cache
        /\ umi_template' = IF r.exc = "" THEN r.t ELSE umi_template
    /\ UNCHANGED <<data_dict, surface_vars>>

NextLibrary ==
    \/ ReadFile
    \/ ReadIdf
    \/ ToDict
    \/ ReadBack
    \/ ClearCache

SpecLibrary == InitLibrary /\ [][NextLibrary]_vars

\* ======================================================================
\* Properties
\* ======================================================================
\* every constructor call of class cls the model makes
CallsOf(cls) ==
    IF cls = "GlazingMaterial" THEN GlazingKwargs \cup StoreKwargs ELSE KwargsOf(cls)

C2_OneZonePerName ==
    /\ \A a \in Addrs(World), b \in Addrs(World) :
         ( /\ Obj(World, a).cls = "Zone" /\ Obj(World, b).cls = "Zone"
           /\ HasAttr(World, a, "Name") /\ HasAttr(World, b, "Name")
           /\ Attr(World, a, "Name") = Attr(World, b, "Name")
           /\ Attr(World, a, "idf") = Attr(World, b, "idf") ) => a = b
    /\ \A kw \in ZoneKwargs :
         (get_cached(World, kw.Name, kw.idf) # 0 /\ Zone_call(World, kw).exc = "")
            => Zone_call(World, kw).ret = get_cached(World, kw.Name, kw.idf)

\* C3: when T(Name=n, ...) is asked for while a T named n is registered, the
\* call raises nothing, returns the registered instance and leaves the heap
\* and the registries exactly as they were, whatever the other arguments.
C3_SameNameReturnsFirstUnchanged ==
    \A cls \in UniqueClasses :
      \A kw \in CallsOf(cls) :
        UniqueKey(cls, kw.Name) \in DOMAIN created_obj =>
          /\ Unique_call(World, cls, kw).exc = ""
          /\ Unique_call(World, cls, kw).ret = created_obj[UniqueKey(cls, kw.Name)]
          /\ Unique_call(World, cls, kw).w = World

\* C3 witness: a request whose arguments differ from the attributes of the
\* registered instance of that Name, answered with that instance.
C3_Witness ==
    \E cls \in UniqueClasses :
      \E kw \in CallsOf(cls) :
        /\ UniqueKey(cls, kw.Name) \in DOMAIN created_obj
        /\ \E k \in (DOMAIN kw) \ {"$id"} :
             /\ HasAttr(World, created_obj[UniqueKey(cls, kw.Name)], k)
             /\ Attr(World, created_obj[UniqueKey(cls, kw.Name)], k) # kw[k]
        /\ Unique_call(World, cls, kw).ret = created_obj[UniqueKey(cls, kw.Name)]

\* C4: after clear_cache() every registry is empty: created_obj and the
\* _cache of every class.
C4_ClearEmptiesEveryRegistry ==
    /\ clear_cache(World).created_obj = EmptyDict
    /\ \A c \in Classes : clear_cache(World).cls_cache[c] = EmptyDict

\* C5: for every pair a, b of entities of one type with a == b (GlazingMaterial,
\* ZoneConstructionSet, Zone), a.combine(b) returns the instance a, raises
\* nothing, makes no object and leaves every registry as it was.
C5_CombineEqualReturnsSelf ==
    \A a \in Addrs(World), b \in Addrs(World), wts \in WeightChoices :
        (Obj(World, a).cls = Obj(World, b).cls /\ eq(World, a, b))
          => combine(World, a, b, wts) = Returns(World, a)

\* C5 witness: two distinct value-equal GlazingMaterial instances, whose
\* combine returns the first.
C5_Witness ==
    \E a \in Addrs(World), b \in Addrs(World) :
        /\ a # b
        /\ Obj(World, a).cls = "GlazingMaterial"
        /\ Obj(World, b).cls = "GlazingMaterial"
        /\ eq(World, a, b)
        /\ combine(World, a, b, None).ret = a

\* the same for two distinct value-equal ZoneConstructionSets and Zones
C5_Witness_ConstructionSet ==
    \E a \in Addrs(World), b \in Addrs(World) :
        /\ a # b
        /\ Obj(World, a).cls = "ZoneConstructionSet"
        /\ Obj(World, b).cls = "ZoneConstructionSet"
        /\ eq(World, a, b)
        /\ combine(World, a, b, None).ret = a

C5_Witness_Zone ==
    \E a \in Addrs(World), b \in Addrs(World) :
        /\ a # b
        /\ Obj(World, a).cls = "Zone"
        /\ Obj(World, b).cls = "Zone"
        /\ eq(World, a, b)
        /\ combine(World, a, b, None).ret = a

\* C6: a.combine(b) with b of another concrete type than a raises
\* NotImplementedError and changes nothing: the heap (both operands) and the
\* registries are as before the call.
C6_TypeMismatchRaises ==
    \A a \in Addrs(World), b \in Addrs(World), wts \in WeightChoices :
        Obj(World, a).cls # Obj(World, b).cls
          => combine(World, a, b, wts) = Raises(World, "NotImplementedError")

\* C6 witness: a GlazingMaterial and a ZoneConstructionSet, combined either
\* way round, with the error raised.
C6_Witness ==
    \E a \in Addrs(World), b \in Addrs(World) :
        /\ Obj(World, a).cls = "GlazingMaterial"
        /\ Obj(World, b).cls = "ZoneConstructionSet"
        /\ combine(World, a, b, None).exc = "NotImplementedError"
        /\ combine(World, b, a, None).exc = "NotImplementedError"

\* the pairs of a material combine: two distinct unequal GlazingMaterials
\* that carry their Name
UnequalMaterials(a, b) ==
    /\ a # b
    /\ Obj(World, a).cls = "GlazingMaterial"
    /\ Obj(World, b).cls = "GlazingMaterial"
    /\ ~eq(World, a, b)
    /\ HasAttr(World, a, "Name") /\ HasAttr(World, b, "Name")

\* v * (d1 + d2) = d1 * v1 + d2 * v2 for the attribute k of the result c of
\* combining a and b in the world w
IsDensityMean(w, c, a, b, k) ==
    RMul(Attr(w, c, k), RAdd(Attr(World, a, "Density"), Attr(World, b, "Density")))
      = RAdd(RMul(Attr(World, a, "Density"), Attr(World, a, k)),
             RMul(Attr(World, b, "Density"), Attr(World, b, k)))

\* C7: for two unequal materials combined without explicit weights the
\* combine gives a result, and every numeric attribute v of it satisfies
\* v * (d1 + d2) = d1 * v1 + d2 * v2, d1 and d2 the Density of the operands.
C7_DensityWeightedMean ==
    \A a \in Addrs(World), b \in Addrs(World) :
        (UnequalMaterials(a, b) /\ combine(World, a, b, None).exc # HeapFull) =>
          /\ combine(World, a, b, None).exc = ""
          /\ \A k \in {"Conductivity", "Density"} :
               IsDensityMean(combine(World, a, b, None).w,
                             combine(World, a, b, None).ret, a, b, k)

\* C7, where the code agrees: when the combine makes a new object, its
\* numeric attributes are the density-weighted means.
C7_MeanOfNewResult ==
    \A a \in Addrs(World), b \in Addrs(World) :
        ( /\ UnequalMaterials(a, b)
          /\ combine(World, a, b, None).exc = ""
          /\ combine(World, a, b, None).ret \notin Addrs(World) ) =>
          \A k \in {"Conductivity", "Density"} :
               IsDensityMean(combine(World, a, b, None).w,
                             combine(World, a, b, None).ret, a, b, k)

\* C8: in a material combine every string attribute of the result is self's
\* value when that is not None and other's value otherwise, and every list
\* attribute is self's list followed by other's.
C8_StringAndListAttributes ==
    \A a \in Addrs(World), b \in Addrs(World) :
        (UnequalMaterials(a, b) /\ combine(World, a, b, None).exc # HeapFull) =>
          /\ combine(World, a, b, None).exc = ""
          /\ Attr(combine(World, a, b, None).w, combine(World, a, b, None).ret, "Type")
               = IF Attr(World, a, "Type") # None
                 THEN Attr(World, a, "Type") ELSE Attr(World, b, "Type")
          /\ Attr(combine(World, a, b, None).w, combine(World, a, b, None).ret,
                  "SubstitutionRatePattern")
               = List(Attr(World, a, "SubstitutionRatePattern").l
                        \o Attr(World, b, "SubstitutionRatePattern").l)

\* C8, where the code agrees: when both strings are non-empty and the combine
\* makes a new object, the string is self's and the list the concatenation.
C8_NonEmptyStringsOfNewResult ==
    \A a \in Addrs(World), b \in Addrs(World) :
        ( /\ UnequalMaterials(a, b)
          /\ Truthy(Attr(World, a, "Type")) /\ Truthy(Attr(World, b, "Type"))
          /\ combine(World, a, b, None).exc = ""
          /\ combine(World, a, b, None).ret \notin Addrs(World) ) =>
          /\ Attr(combine(World, a, b, None).w, combine(World, a, b, None).ret, "Type")
               = Attr(World, a, "Type")
          /\ Attr(combine(World, a, b, None).w, combine(World, a, b, None).ret,
                  "SubstitutionRatePattern")
               = List(Attr(World, a, "SubstitutionRatePattern").l
                        \o Attr(World, b, "SubstitutionRatePattern").l)

\* C9: no two entities of the registry have the same id, and the result of
\* a + b for unequal a, b of one type has an id other than a's and b's.
C9_RegistryIdsDistinct ==
    /\ \A k1 \in DOMAIN created_obj, k2 \in DOMAIN created_obj :
         created_obj[k1] # created_obj[k2]
           => Attr(World, created_obj[k1], "id") # Attr(World, created_obj[k2], "id")
    /\ \A a \in Addrs(World), b \in Addrs(World) :
         ( /\ a # b
           /\ Obj(World, a).cls = Obj(World, b).cls
           /\ ~eq(World, a, b)
           /\ add(World, a, b).exc = "" ) =>
           /\ Attr(add(World, a, b).w, add(World, a, b).ret, "id") # Attr(World, a, "id")
           /\ Attr(add(World, a, b).w, add(World, a, b).ret, "id") # Attr(World, b, "id")

\* C10: for unequal a, b of one type, a += b returns a with the id it had
\* and the attribute values of a + b, leaves b as it was, and a.id differs
\* from b.id afterwards.
C10_ExtendKeepsIdentity ==
    \A a \in Addrs(World), b \in Addrs(World) :
        ( /\ a # b
          /\ Obj(World, a).cls = Obj(World, b).cls
          /\ ~eq(World, a, b)
          /\ HasAttr(World, a, "Name") /\ HasAttr(World, b, "Name")
          /\ extend(World, a, b).exc # HeapFull ) =>
          /\ extend(World, a, b).exc = ""
          /\ extend(World, a, b).ret = a
          /\ Attr(extend(World, a, b).w, a, "id") = Attr(World, a, "id")
          /\ \A k \in {"Conductivity", "Density", "DaylightMeshResolution",
                       "IsSlabAdiabatic", "_area", "_volume"} :
               HasAttr(World, a, k) =>
                 Attr(extend(World, a, b).w, a, k)
                   = Attr(add(World, a, b).w, add(World, a, b).ret, k)
          /\ Obj(extend(World, a, b).w, b) = Obj(World, b)
          /\ Attr(extend(World, a, b).w, a, "id") # Attr(World, b, "id")

\* C10, where the code agrees: for two unequal materials with distinct ids,
\* self's strings not None, a += b keeps a and its id, gives a the numbers
\* of a + b and leaves b as it was.
C10_MaterialExtend ==
    \A a \in Addrs(World), b \in Addrs(World) :
        ( /\ UnequalMaterials(a, b)
          /\ Attr(World, a, "Type") # None
          /\ Attr(World, a, "id") # Attr(World, b, "id")
          /\ extend(World, a, b).exc # HeapFull ) =>
          /\ extend(World, a, b).exc = ""
          /\ extend(World, a, b).ret = a
          /\ Attr(extend(World, a, b).w, a, "id") = Attr(World, a, "id")
          /\ \A k \in {"Conductivity", "Density"} :
                 Attr(extend(World, a, b).w, a, k)
                   = Attr(add(World, a, b).w, add(World, a, b).ret, k)
          /\ Obj(extend(World, a, b).w, b) = Obj(World, b)
          /\ Attr(extend(World, a, b).w, a, "id") # Attr(World, b, "id")

\* C10 for two zones: a += b never returns
C10_ZoneExtendRaises ==
    \A a \in Addrs(World), b \in Addrs(World) :
        ( /\ a # b
          /\ Obj(World, a).cls = "Zone" /\ Obj(World, b).cls = "Zone"
          /\ ~eq(World, a, b)
          /\ extend(World, a, b).exc # HeapFull ) =>
          extend(World, a, b).exc # ""

\* a zone made by the combine of the zones A and B is in the world
ZoneCombined ==
    \E z \in Addrs(World) :
        /\ Obj(World, z).cls = "Zone"
        /\ HasAttr(World, z, "Name") /\ Attr(World, z, "Name") = NameAB

\* a += b of two zones got as far as the removal from the registry: a has
\* the summed volume, and the combined zone has lost its Name and has a's id
ZoneExtendInterrupted ==
    \E a \in Addrs(World), z \in Addrs(World) :
        /\ a # z
        /\ Obj(World, a).cls = "Zone" /\ Obj(World, z).cls = "Zone"
        /\ ~HasAttr(World, z, "Name")
        /\ Attr(World, z, "id") = Attr(World, a, "id")
        /\ Attr(World, a, "_volume") = Num(400, 1)

\* the explicit weights a caller may pass to a combine
ExplicitWeights == {None, List(<<Num(1, 1), Num(3, 1)>>)}

\* two distinct zones of different Names whose area and volume are known
ZonesOfTwoNames(a, b) ==
    /\ a # b
    /\ Obj(World, a).cls = "Zone" /\ Obj(World, b).cls = "Zone"
    /\ HasAttr(World, a, "Name") /\ HasAttr(World, b, "Name")
    /\ Attr(World, a, "Name") # Attr(World, b, "Name")
    /\ Zone_area(World, a).exc = "" /\ Zone_area(World, b).exc = ""
    /\ Zone_volume(World, a).exc = "" /\ Zone_volume(World, b).exc = ""

\* the zone z of the world w has the summed area and volume of a and b
IsZoneSum(w, z, a, b) ==
    /\ Zone_area(w, z).exc = ""
    /\ Zone_area(w, z).v = RAdd(Zone_area(World, a).v, Zone_area(World, b).v)
    /\ Zone_volume(w, z).exc = ""
    /\ Zone_volume(w, z).v = RAdd(Zone_volume(World, a).v, Zone_volume(World, b).v)

\* C11: for every two zones of different Names, value-equal settings
\* included, z1.combine(z2) gives a zone whose area is z1.area + z2.area and
\* whose volume is z1.volume + z2.volume, whatever the weights.
C11_ZoneSumsAreaAndVolume ==
    \A a \in Addrs(World), b \in Addrs(World), wts \in ExplicitWeights :
        (ZonesOfTwoNames(a, b) /\ combine(World, a, b, wts).exc # HeapFull) =>
          /\ combine(World, a, b, wts).exc = ""
          /\ IsZoneSum(combine(World, a, b, wts).w, combine(World, a, b, wts).ret, a, b)

\* C11, where the code agrees: the zone a combine makes has the summed area
\* and volume, whatever the weights.
C11_SumOfNewZone ==
    \A a \in Addrs(World), b \in Addrs(World), wts \in ExplicitWeights :
        ( /\ ZonesOfTwoNames(a, b)
          /\ combine(World, a, b, wts).exc = ""
          /\ combine(World, a, b, wts).ret \notin Addrs(World) ) =>
          IsZoneSum(combine(World, a, b, wts).w, combine(World, a, b, wts).ret, a, b)

\* two value-equal zones of different Names, areas 50 and 30
C11_EqualZonesOfTwoNames ==
    \E a \in Addrs(World), b \in Addrs(World) :
        /\ ZonesOfTwoNames(a, b)
        /\ eq(World, a, b)
        /\ combine(World, a, b, None) = Returns(World, a)
        /\ Zone_area(World, a).v = Num(50, 1) /\ Zone_area(World, b).v = Num(30, 1)

\* the weights Zone.combine hands to the combine of the construction sets
\* for zones of volume 100 and 50
VolumeWeights == List(<<Num(100, 1), Num(50, 1)>>)

\* two construction sets, the slot of one None, the slot of the other held
NoneAndHeldSlot(a, b) ==
    /\ Obj(World, a).cls = "ZoneConstructionSet"
    /\ Obj(World, b).cls = "ZoneConstructionSet"
    /\ HasAttr(World, a, "Name") /\ HasAttr(World, b, "Name")
    /\ \/ Attr(World, a, "Slab") = None /\ Attr(World, b, "Slab") # None
       \/ Attr(World, a, "Slab") # None /\ Attr(World, b, "Slab") = None

\* C12: combining two construction sets of which one has the slot None and
\* the other holds construction A, with the weights [100, 50] of their zones,
\* completes without error and gives a result whose slot is A.
C12_NoneSlotTakesOther ==
    \A a \in Addrs(World), b \in Addrs(World) :
        ( /\ NoneAndHeldSlot(a, b)
          /\ combine(World, a, b, VolumeWeights).exc # HeapFull ) =>
          /\ combine(World, a, b, VolumeWeights).exc = ""
          /\ Attr(combine(World, a, b, VolumeWeights).w,
                  combine(World, a, b, VolumeWeights).ret, "Slab")
               = IF Attr(World, a, "Slab") # None
                 THEN Attr(World, a, "Slab") ELSE Attr(World, b, "Slab")

\* C12, what the code does: such a combine always raises, AttributeError
\* when the None slot is self's
C12_NoneSlotRaises ==
    \A a \in Addrs(World), b \in Addrs(World) :
        NoneAndHeldSlot(a, b) =>
          /\ combine(World, a, b, VolumeWeights).exc # ""
          /\ Attr(World, a, "Slab") = None
               => combine(World, a, b, VolumeWeights) = Raises(World, "AttributeError")

\* a construction set with the slot None and one with the slot held exist
C12_NoneAndHeldSlotExist ==
    \E a \in Addrs(World), b \in Addrs(World) :
        NoneAndHeldSlot(a, b) /\ Attr(World, a, "Slab") = None

\* the documented dispatch table: (Surface_Type, Outside_Boundary_Condition)
\* to slot
DocumentedSlot ==
    <<Wall, "Outdoors">> :> "Facade" @@
    <<Floor, "Ground">> :> "Ground" @@
    <<Floor, "Outdoors">> :> "Ground" @@
    <<Floor, "Foundation">> :> "Ground" @@
    <<Floor, "Surface">> :> "Slab" @@
    <<Floor, "Adiabatic">> :> "Slab" @@
    <<Floor, "Zone">> :> "Slab" @@
    <<Wall, "Adiabatic">> :> "Partition" @@
    <<Wall, "Surface">> :> "Partition" @@
    <<Wall, "Zone">> :> "Partition" @@
    <<Wall, "Ground">> :> "Facade" @@
    <<Roof, "Outdoors">> :> "Roof" @@
    <<Roof, "Zone">> :> "Roof" @@
    <<Roof, "Surface">> :> "Roof" @@
    <<Ceiling, "Adiabatic">> :> "Slab" @@
    <<Ceiling, "Surface">> :> "Slab" @@
    <<Ceiling, "Zone">> :> "Slab"

\* the pair of a surface as the idf gives it
PairOf(surf) == <<surf.Surface_Type, surf.Outside_Boundary_Condition>>

\* a surface that is dispatched and whose pair is in the documented table
IsDocumented(surf) ==
    /\ key_upper(surf.key) \notin ExcludedKeys
    /\ PairOf(surf) \in DOMAIN DocumentedSlot

\* the constructions of the surfaces from the i-th on whose documented slot
\* is g, every surface (all = TRUE) or only those whose construction is in
\* the file
RECURSIVE DocumentedGroup(_, _, _, _)
DocumentedGroup(surfs, i, g, all) ==
    IF i > Len(surfs) THEN <<>>
    ELSE IF DocumentedSlot[PairOf(surfs[i])] = g /\ (all \/ surfs[i].constructed)
         THEN <<Tagged(surfs[i], g)>> \o DocumentedGroup(surfs, i + 1, g, all)
    ELSE DocumentedGroup(surfs, i + 1, g, all)

\* from_zone has run on the surfaces of the zone
FromZoneRan == z_set # NotBuilt /\ (z_set.built => z_set.zone)

\* every surface of the zone is in the documented table
AllDocumented == \A i \in 1..Len(zonesurfaces) : IsDocumented(zonesurfaces[i])

IsUndocumented(surf) ==
    /\ key_upper(surf.key) \notin ExcludedKeys
    /\ <<capitalize(surf.Surface_Type), surf.Outside_Boundary_Condition>>
         \notin DOMAIN DocumentedSlot

\* C14: for every surface that is not excluded and whose pair is not in the
\* table surface_dispatcher raises NotImplementedError, and from_zone of a
\* zone with such a surface raises it too: no group is filled as if the
\* surface were skipped and no construction set is returned.
C14_UnknownPairRaises ==
    /\ \A i \in 1..Len(zonesurfaces) :
         IsUndocumented(zonesurfaces[i]) =>
           surface_dispatcher(zonesurfaces[i])
             = [exc |-> "NotImplementedError", out |-> <<>>]
    /\ (\E i \in 1..Len(zonesurfaces) : IsUndocumented(zonesurfaces[i])) =>
         /\ from_zone_groups(zonesurfaces).exc = "NotImplementedError"
         /\ from_zone(zonesurfaces)
              = [exc |-> "NotImplementedError", built |-> FALSE]
         /\ FromZoneRan =>
              z_set = [exc |-> "NotImplementedError", built |-> FALSE]

\* from_zone has run on a zone whose second surface is an adiabatic roof,
\* after a wall it could dispatch, and has raised
C14_Witness ==
    /\ Len(zonesurfaces) = 2
    /\ PairOf(zonesurfaces[1]) = <<Wall, "Outdoors">>
    /\ PairOf(zonesurfaces[2]) = <<Roof, "Adiabatic">>
    /\ z_set = [exc |-> "NotImplementedError", built |-> FALSE]

\* a zone whose only surfaces are walls to the outdoors
OnlyOutdoorWalls ==
    /\ zonesurfaces # <<>>
    /\ \A i \in 1..Len(zonesurfaces) :
         /\ zonesurfaces[i].key = "BuildingSurface:Detailed"
         /\ PairOf(zonesurfaces[i]) = <<Wall, "Outdoors">>

\* the slots no surface of such a zone maps to
UnfilledSlots == {"Ground", "Roof", "Slab"}

\* C15: the construction set from_zone builds from a zone whose only
\* surfaces are Outdoors walls has Ground, Roof and Slab None before
\* validate() and the generic construction in each after validate().
C15_NoneUntilValidate ==
    OnlyOutdoorWalls =>
      /\ from_zone(zonesurfaces).built
      /\ \A g \in UnfilledSlots :
           /\ from_zone(zonesurfaces).slots[g] = None
           /\ validate(from_zone(zonesurfaces)).slots[g] = GenericConstruction
      /\ (FromZoneRan /\ z_set = from_zone(zonesurfaces)) =>
           \A g \in UnfilledSlots :
             validate(z_set).slots[g] = GenericConstruction

\* what from_zone does: the three slots hold the generic construction as
\* soon as from_zone returns, and validate() leaves the set as it is
C15_GenericFromZone ==
    OnlyOutdoorWalls =>
      /\ from_zone(zonesurfaces).built
      /\ \A g \in UnfilledSlots :
           from_zone(zonesurfaces).slots[g] = GenericConstruction
      /\ validate(from_zone(zonesurfaces)) = from_zone(zonesurfaces)
      /\ FromZoneRan =>
           \A g \in UnfilledSlots : z_set.slots[g] = GenericConstruction

\* from_zone has built the set of a zone of two Outdoors walls
C15_OutdoorWallsBuilt ==
    /\ OnlyOutdoorWalls
    /\ Len(zonesurfaces) = 2
    /\ FromZoneRan
    /\ z_set.built
    /\ z_set.slots["Facade"] # GenericConstruction

\* the objects recursive_json reaches from the objects on the stack
RECURSIVE Reached(_, _, _)
Reached(w, stack, seen) ==
    IF stack = <<>> THEN seen
    ELSE IF Head(stack) \in seen THEN Reached(w, Tail(stack), seen)
    ELSE Reached(w, children(w, Head(stack)) \o Tail(stack),
                 seen \cup {Head(stack)})

\* the entities reachable from the BuildingTemplates of the library
Reachable == Reached(World, umi_template["BuildingTemplates"], {})

\* the entries of the document that stand for the entity at address a
EntriesOf(doc, a) ==
    {i \in 1..Len(doc[catname(Obj(World, a).cls)]) :
        /\ doc[catname(Obj(World, a).cls)][i]["$id"] = str_id(Attr(World, a, "id"))
        /\ doc[catname(Obj(World, a).cls)][i].Name = Attr(World, a, "Name")}

\* no two entries of a category array carry the same "$id"
DistinctIds(doc) ==
    \A c \in Categories :
      \A i, j \in 1..Len(doc[c]) : doc[c][i]["$id"] = doc[c][j]["$id"] => i = j

\* C16: in the document to_dict returns every entity reachable from a
\* BuildingTemplate of the library has exactly one entry, and no two entries
\* of a category array carry the same "$id".
C16_EveryEntityOnce ==
    (umi_template # None /\ to_dict(World, umi_template).exc = "") =>
      /\ \A a \in Reachable :
           Cardinality(EntriesOf(to_dict(World, umi_template).doc, a)) = 1
      /\ DistinctIds(to_dict(World, umi_template).doc)

\* what to_dict guarantees: no two entries of the whole document carry the
\* same "$id", no entity has two entries, and every reachable entity has its
\* entry when the ids of the reachable entities are distinct
C16_OncePerId ==
    (umi_template # None /\ to_dict(World, umi_template).exc = "") =>
      /\ DistinctIds(to_dict(World, umi_template).doc)
      /\ \A a \in Reachable :
           Cardinality(EntriesOf(to_dict(World, umi_template).doc, a)) <= 1
      /\ (\A a, b \in Reachable :
             Attr(World, a, "id") = Attr(World, b, "id") => a = b)
           => \A a \in Reachable :
                Cardinality(EntriesOf(to_dict(World, umi_template).doc, a)) = 1

\* a library of two buildings that share entities has been written
C16_SharedEntitiesWritten ==
    /\ umi_template # None
    /\ data_dict # None
    /\ Len(umi_template["BuildingTemplates"]) = 2
    /\ umi_template["BuildingTemplates"][1] # umi_template["BuildingTemplates"][2]
    /\ data_dict = to_dict(World, umi_template).doc
    /\ Len(data_dict["GlazingMaterials"]) = 1
    /\ Len(data_dict["Zones"]) = 4

\* a reachable entity carries the id of another reachable entity
C16_ReachableIdClash ==
    /\ umi_template # None
    /\ \E a, b \in Reachable :
         a # b /\ Attr(World, a, "id") = Attr(World, b, "id")

\* the GasMaterials reachable from the BuildingTemplates of the library
ReachableGas == {a \in Reachable : Obj(World, a).cls = "GasMaterial"}

\* the document to_dict returns has no GasMaterials entry but those of the
\* reachable GasMaterials
NoSyntheticGas(doc) ==
    \A i \in 1..Len(doc["GasMaterials"]) :
      \E a \in ReachableGas : i \in EntriesOf(doc, a)

\* the GasMaterials array is the one synthetic entry
OnlyAir(doc) ==
    /\ Len(doc["GasMaterials"]) = 1
    /\ doc["GasMaterials"][1].Name = NameAIR

\* C17: to_dict on a library in which no GasMaterial is reachable returns a
\* GasMaterials array of exactly one entry, named "AIR"; when a GasMaterial
\* is reachable no synthetic entry is added.
C17_SyntheticAir ==
    (umi_template # None /\ to_dict(World, umi_template).exc = "") =>
      /\ ReachableGas = {} => OnlyAir(to_dict(World, umi_template).doc)
      /\ ReachableGas # {} => NoSyntheticGas(to_dict(World, umi_template).doc)

\* what to_dict does: the one entry "AIR" when no GasMaterial is reachable,
\* and no synthetic entry when one is reachable and has been written
C17_AirIffNoneWritten ==
    (umi_template # None /\ to_dict(World, umi_template).exc = "") =>
      /\ ReachableGas = {} => OnlyAir(to_dict(World, umi_template).doc)
      /\ (\E a \in ReachableGas :
             EntriesOf(to_dict(World, umi_template).doc, a) # {})
           => NoSyntheticGas(to_dict(World, umi_template).doc)
      /\ (\A a, b \in Reachable :
             Attr(World, a, "id") = Attr(World, b, "id") => a = b)
           => (ReachableGas # {}
                 => NoSyntheticGas(to_dict(World, umi_template).doc))

\* a library without gas has been written with the synthetic entry
C17_AirWritten ==
    /\ umi_template # None
    /\ data_dict # None
    /\ data_dict = to_dict(World, umi_template).doc
    /\ ReachableGas = {}
    /\ OnlyAir(data_dict)

\* the gas of the library is reachable and the document holds "AIR" instead
C17_GasDropped ==
    /\ umi_template # None
    /\ to_dict(World, umi_template).exc = ""
    /\ ReachableGas # {}
    /\ OnlyAir(to_dict(World, umi_template).doc)
    /\ \A a \in ReachableGas : Attr(World, a, "Name") # NameAIR

\* a process that has made no object yet
FreshWorld ==
    [heap |-> <<>>, created_obj |-> EmptyDict,
     cls_cache |-> [c \in Classes |-> EmptyDict]]

\* the document to_dict returns for the library, read by read_file in a
\* process of its own
ReadBackOf(doc) == read_file(FreshWorld, doc)

\* the Names of the objects at the addresses of a list
NamesAt(w, l) == {Attr(w, l[i], "Name") : i \in 1..Len(l)}

\* the reachable entities of a category
ReachableOf(c) == {a \in Reachable : catname(Obj(World, a).cls) = c}

\* the library read back has, in category c, as many entities as the
\* library written has reachable ones, with the same Names
SameCategory(back, c) ==
    /\ Len(back.t[c]) = Cardinality(ReachableOf(c))
    /\ NamesAt(back.w, back.t[c]) = {Attr(World, a, "Name") : a \in ReachableOf(c)}

\* C18: reading back the document to_dict returns gives a library with the
\* same number of entities in every category and the same Names per
\* category as the library that was written.
C18_RoundTrip ==
    (umi_template # None /\ to_dict(World, umi_template).exc = "") =>
      /\ ReadBackOf(to_dict(World, umi_template).doc).exc = ""
      /\ \A c \in Categories :
           SameCategory(ReadBackOf(to_dict(World, umi_template).doc), c)

\* no two objects made so far carry the same id
DistinctHeapIds ==
    \A a, b \in 1..Len(heap) :
      Attr(World, a, "id") = Attr(World, b, "id") => a = b

\* what the round trip keeps: when the ids of the objects made so far are
\* distinct the document reads back without error and every category but
\* GasMaterials has the same number of entities and the same Names;
\* GasMaterials has them when a GasMaterial is reachable and is the one
\* "AIR" otherwise
C18_RoundTripButAir ==
    (/\ umi_template # None
     /\ to_dict(World, umi_template).exc = ""
     /\ DistinctHeapIds) =>
      /\ ReadBackOf(to_dict(World, umi_template).doc).exc = ""
      /\ \A c \in Categories \ {"GasMaterials"} :
           SameCategory(ReadBackOf(to_dict(World, umi_template).doc), c)
      /\ IF ReachableGas # {}
         THEN SameCategory(ReadBackOf(to_dict(World, umi_template).doc),
                           "GasMaterials")
         ELSE NamesAt(ReadBackOf(to_dict(World, umi_template).doc).w,
                      ReadBackOf(to_dict(World, umi_template).doc).t["GasMaterials"])
                = {NameAIR}

\* a library of two buildings read from idf files, one of them with gas,
\* has been written and read back
C18_ReadBackDone ==
    /\ reads = 2
    /\ data_dict # None
    /\ umi_template # None
    /\ Len(umi_template["BuildingTemplates"]) = 2
    /\ Len(umi_template["Zones"]) = 4
    /\ Len(umi_template["GasMaterials"]) = 1
    /\ \A i \in 1..4 : IsStr(Attr(World, umi_template["Zones"][i], "id"))

\* a library without gas whose round trip gives a library with "AIR"
C18_AirComesBack ==
    /\ umi_template # None
    /\ to_dict(World, umi_template).exc = ""
    /\ ReachableGas = {}
    /\ DistinctHeapIds
    /\ Len(ReadBackOf(to_dict(World, umi_template).doc).t["GasMaterials"]) = 1

\* the ids the references looked up are drawn from: ids the documents give,
\* an id no document gives, and the decimal form of an id(self)
RefIds ==
    {<<"1">>, <<"2">>, <<"5">>, <<"9">>, <<"5", "0">>, <<"3", "2">>,
     <<"1", "0", "0", "1">>}

\* the registered entities whose id is the string id
WithId(id) == {a \in Registered(World) : Attr(World, a, "id") = Str(id)}

\* C19: get_ref of a {"$ref": id} whose id matches no registered entity
\* raises; what get_ref returns is never None and is a registered entity
\* with that id; and reading a document with such a reference raises.
C19_DanglingRefRaises ==
    /\ \A id \in RefIds :
         /\ WithId(id) = {} => get_ref(World, DRef(Str(id))).exc = "IndexError"
         /\ get_ref(World, DRef(Str(id))).exc = "" =>
              get_ref(World, DRef(Str(id))).ret \in WithId(id)
    /\ get_ref(World, None).exc # ""
    /\ read_file(World, DocumentDangling).exc \in {"IndexError", HeapFull}

\* a document with a dangling reference has been read: its zone "CD" was
\* made, its building "BD" never was, and the id "50" still matches nothing
C19_DanglingRead ==
    /\ reads >= 1
    /\ \E a \in 1..Len(heap) :
         /\ Obj(World, a).cls = "Zone"
         /\ Attr(World, a, "Name") = Str(<<"C", "D">>)
    /\ \A a \in 1..Len(heap) : Attr(World, a, "Name") # Str(<<"B", "D">>)
    /\ WithId(<<"5", "0">>) = {}
    /\ WithId(<<"2">>) # {}

\* the tasks of a batch ended without the model running out of addresses
Ran(r) == \A i \in 1..Len(r.results) : r.results[i].exc # HeapFull

\* result i of the batch is a BuildingTemplate
Succeeded(r, i) == r.results[i].exc = ""

\* the BuildingTemplates of the results that are no exception, in the order
\* of the results
SuccessfulResults(r) ==
    LET ok == SelectSeq(r.results, LAMBDA x : x.exc = "")
    IN  [i \in 1..Len(ok) |-> ok[i].bld]

\* C20: when at least one reduction task succeeds read_idf does not raise
\* and the BuildingTemplates of the library are the successful results,
\* each one a BuildingTemplate, none dropped and no exception among them,
\* wherever the failures are in the batch; when every task fails it raises.
C20_SuccessfulResultsKept ==
    \A idf_files \in IdfFileLists :
      LET r == read_idf(World, idf_files)
      IN  Ran(r) =>
            IF \E i \in 1..Len(r.results) : Succeeded(r, i)
            THEN /\ r.exc = ""
                 /\ r.t["BuildingTemplates"] = SuccessfulResults(r)
                 /\ \A i \in 1..Len(r.t["BuildingTemplates"]) :
                      Obj(r.w, r.t["BuildingTemplates"][i]).cls = "BuildingTemplate"
            ELSE r.exc = "Exception"

\* the batches of three files whose second task fails between two that
\* succeed
FailureInTheMiddle ==
    {idf_files \in IdfFileLists :
        /\ Len(idf_files) = 3
        /\ idf_files[1].valid /\ ~idf_files[2].valid /\ idf_files[3].valid
        /\ idf_files[1] # idf_files[3]}

\* the state read_idf leaves in a process that had made no object, for a
\* batch whose second task failed: a library of the two other buildings
C20_FailureInTheMiddleRead ==
    /\ reads = 1
    /\ umi_template # None
    /\ Len(umi_template["BuildingTemplates"]) = 2
    /\ \E idf_files \in FailureInTheMiddle :
         /\ read_idf(FreshWorld, idf_files).w.heap = heap
         /\ read_idf(FreshWorld, idf_files).t = umi_template
         /\ ~Succeeded(read_idf(FreshWorld, idf_files), 2)

\* two zones of the world
TwoZones(a, b) == Obj(World, a).cls = "Zone" /\ Obj(World, b).cls = "Zone"

\* the objects of the world that the world w holds as they were
Untouched(w) == {x \in Addrs(World) : Obj(w, x) = Obj(World, x)}

\* C21: Zone.combine(other) modifies neither operand nor an aggregate they
\* own, back-references included: after the call every object that was there
\* before is what it was.
C21_CombineLeavesOperands ==
    \A a \in Addrs(World), b \in Addrs(World), wts \in ExplicitWeights :
      LET r == Zone_combine(World, a, b, wts)
      IN  (TwoZones(a, b) /\ r.exc # HeapFull) => Untouched(r.w) = Addrs(World)

\* what Zone.combine leaves alone: the two zones themselves, and every
\* object but the construction set the new zone holds
C21_OnlyCombinedSetTouched ==
    \A a \in Addrs(World), b \in Addrs(World), wts \in ExplicitWeights :
      LET r == Zone_combine(World, a, b, wts)
      IN  (TwoZones(a, b) /\ r.exc # HeapFull) =>
            /\ {a, b} \subseteq Untouched(r.w)
            /\ \A x \in Addrs(World) \ Untouched(r.w) :
                 /\ r.exc = ""
                 /\ r.ret \notin Addrs(World)
                 /\ Attr(r.w, r.ret, "Constructions") = Ref(x)
                 /\ Attr(r.w, x, "_belongs_to_zone") = Ref(r.ret)

\* two unequal zones whose construction sets are value-equal: their combine
\* hands the set of the first to the new zone
C21_SharedSetReparented ==
    \E a \in Addrs(World), b \in Addrs(World) :
      LET r == Zone_combine(World, a, b, None)
      IN  /\ TwoZones(a, b)
          /\ ~Zone_eq(World, a, b)
          /\ r.exc = ""
          /\ Attr(World, a, "Constructions") # None
          /\ Attr(r.w, Attr(World, a, "Constructions").a, "_belongs_to_zone")
               = Ref(r.ret)
          /\ Attr(World, Attr(World, a, "Constructions").a, "_belongs_to_zone")
               # Ref(r.ret)

\* ------------------------------------- zones with their owned aggregates
\* Zone.combine with every aggregate a zone owns followed as an object of its
\* own.  The attributes that hold an aggregate, in the order Zone.combine
\* combines them
OwnedAttrs ==
    <<"Conditioning", "Constructions", "Ventilation", "Windows",
      "DomesticHotWater", "InternalMassConstruction", "Loads">>

\* the class of ZoneConstructionSet that zone.py defines, beside the one of
\* zone_construction_set.py
ZoneConstructionSetOfZonePy == "zone.ZoneConstructionSet"
ConstructionSetClasses == {"ZoneConstructionSet", ZoneConstructionSetOfZonePy}

\* the class of the aggregate an attribute holds
OwnedClass(attr) ==
    CASE attr = "Conditioning" -> "ZoneConditioning"
      [] attr = "Constructions" -> "ZoneConstructionSet"
      [] attr = "Ventilation" -> "VentilationSetting"
      [] attr = "Windows" -> "WindowSetting"
      [] attr = "DomesticHotWater" -> "DomesticHotWaterSetting"
      [] attr = "InternalMassConstruction" -> "OpaqueConstruction"
      [] attr = "Loads" -> "ZoneLoad"

\* the five adiabatic flags of a construction set
Flags ==
    <<"IsSlabAdiabatic", "IsRoofAdiabatic", "IsPartitionAdiabatic",
      "IsGroundAdiabatic", "IsFacadeAdiabatic">>

\* the most objects the combines of two zones and their aggregates make
MaxZoneObj == 26
\* the most zones and the most construction sets there are
MaxZones == 3
MaxSets == 3

\* __init__ of the class of an aggregate: a construction set with its five
\* flags (Slab stands for the five constructions), any other aggregate with
\* one Value that stands for its attributes; _belongs_to_zone from the
\* keyword zone
Owned_init(cls, a, kw) ==
    IF cls \in ConstructionSetClasses
    THEN Update(ZoneConstructionSet_init(a, kw),
                [f \in Range(Flags) |-> Get(kw, f, Bool(FALSE))])
    ELSE Update(UmiBase_init(a, kw),
                [Value |-> Get(kw, "Value", None),
                 _belongs_to_zone |-> Get(kw, "zone", None)])

\* Zone.__init__ with every owned aggregate
Zone_init_owned(a, kw) ==
    Update(Zone_init(a, kw),
           [n \in Range(OwnedAttrs) \ {"Conditioning", "Constructions"} |->
               Get(kw, n, None)])

\* the world with the object d of class cls added and registered under key
Allocated(w, cls, key, d) ==
    [heap |-> Append(w.heap, [cls |-> cls, d |-> d]),
     created_obj |-> Put(w.created_obj, key, Len(w.heap) + 1),
     cls_cache |-> IF cls \in DOMAIN w.cls_cache
                   THEN [w.cls_cache EXCEPT ![cls] = Put(@, key, Len(w.heap) + 1)]
                   ELSE w.cls_cache]

\* cls(**kw) for the class of an aggregate: Unique.__call__
Owned_call(w, cls, kw) ==
    IF UniqueKey(cls, kw.Name) \in DOMAIN w.created_obj
    THEN Returns(w, w.created_obj[UniqueKey(cls, kw.Name)])
    ELSE IF Len(w.heap) >= MaxZoneObj THEN Raises(w, HeapFull)
    ELSE Returns(Allocated(w, cls, UniqueKey(cls, kw.Name),
                           Owned_init(cls, Len(w.heap) + 1, kw)),
                 Len(w.heap) + 1)

\* Zone(**kw) with every owned aggregate
Zone_call_owned(w, kw) ==
    IF Len(w.heap) >= MaxZoneObj THEN Raises(w, HeapFull)
    ELSE Returns(Allocated(w, "Zone", Zone_hash(kw.Name, Get(kw, "idf", None)),
                           Zone_init_owned(Len(w.heap) + 1, kw)),
                 Len(w.heap) + 1)

\* x == y for two aggregates at the addresses x and y: __eq__ of the class
\* of x
Owned_eq(w, x, y) ==
    IF Obj(w, x).cls \in ConstructionSetClasses
    THEN /\ Obj(w, y).cls \in ConstructionSetClasses
         /\ Attr(w, x, "Slab") = Attr(w, y, "Slab")
         /\ \A i \in 1..Len(Flags) : Attr(w, x, Flags[i]) = Attr(w, y, Flags[i])
    ELSE /\ Obj(w, y).cls = Obj(w, x).cls
         /\ Attr(w, x, "Value") = Attr(w, y, "Value")

\* self.attr == other.attr for two values of an attribute of a zone
Held_eq(w, x, y) ==
    IF x = None \/ y = None THEN x = y ELSE Owned_eq(w, x.a, y.a)

\* Zone.__eq__ with every owned aggregate
Zone_eq_owned(w, a, b) ==
    /\ Obj(w, b).cls = "Zone"
    /\ \A i \in 1..Len(OwnedAttrs) :
         Held_eq(w, Attr(w, a, OwnedAttrs[i]), Attr(w, b, OwnedAttrs[i]))
    /\ Attr(w, a, "DaylightMeshResolution") = Attr(w, b, "DaylightMeshResolution")

\* a flag of the combined construction set: any([self.flag, other.flag]) in
\* zone_construction_set.py, self.flag in zone.py
CombinedFlag(w, x, y, flag) ==
    IF Obj(w, x).cls = ZoneConstructionSetOfZonePy THEN Attr(w, x, flag)
    ELSE Bool(Attr(w, x, flag).b \/ Attr(w, y, flag).b)

\* the keywords of the combined aggregate, past the checks: [exc, kw]
CombinedKwargs(w, x, y) ==
    LET slab == Aggregate_combine(Attr(w, x, "Slab"), Attr(w, y, "Slab"))
    IN  IF Obj(w, x).cls \notin ConstructionSetClasses
        THEN [exc |-> "",
              kw |-> Update(get_predecessors_meta(w, x, y),
                            [Value |-> Str(Attr(w, x, "Value").s
                                           \o Attr(w, y, "Value").s),
                             idf |-> Attr(w, x, "idf")])]
        ELSE IF slab.exc # "" THEN [exc |-> slab.exc, kw |-> None]
        \* sql=self.idf.sql, in zone_construction_set.py
        ELSE IF Obj(w, x).cls = "ZoneConstructionSet" /\ Attr(w, x, "idf") = None
             THEN [exc |-> "AttributeError", kw |-> None]
        ELSE [exc |-> "",
              kw |-> Update(Update(get_predecessors_meta(w, x, y),
                                   [f \in Range(Flags) |-> CombinedFlag(w, x, y, f)]),
                            IF Obj(w, x).cls = "ZoneConstructionSet"
                            THEN [Slab |-> slab.v, idf |-> Attr(w, x, "idf")]
                            ELSE [Slab |-> slab.v])]

\* new_obj = self.__class__(**meta, **new_attr) and its predecessors
Owned_combine_new(w, x, y, k) ==
    LET r == Owned_call(w, Obj(w, x).cls, k.kw)
    IN  IF k.exc # "" THEN Raises(w, k.exc)
        ELSE IF r.exc # "" THEN r
        ELSE Returns(ExtendPredecessors(r.w, r.ret, x, y), r.ret)

\* x.combine(y, weights) for two aggregates: another type is refused, equal
\* operands give self, unequal ones a new object
Owned_combine(w, x, y, weights) ==
    IF Obj(w, y).cls # Obj(w, x).cls THEN Raises(w, "NotImplementedError")
    ELSE IF Owned_eq(w, x, y) THEN Returns(w, x)
    ELSE IF /\ Obj(w, x).cls \in ConstructionSetClasses
            /\ ZoneConstructionSet_weights(w, x, y, weights).exc # ""
         THEN Raises(w, ZoneConstructionSet_weights(w, x, y, weights).exc)
    ELSE Owned_combine_new(w, x, y, CombinedKwargs(w, x, y))

\* the combines of the owned aggregates of Zone.combine, from the i-th
\* attribute on: Windows is None when one of the two is None; attr holds the
\* combined aggregates so far.  [w, exc, attr]
RECURSIVE combine_owned(_, _, _, _, _, _)
combine_owned(w, a, b, i, wts, attr) ==
    LET n == OwnedAttrs[i]
        x == Attr(w, a, n)
        y == Attr(w, b, n)
        r == Owned_combine(w, x.a, y.a, List(wts))
    IN  IF i > Len(OwnedAttrs) THEN [w |-> w, exc |-> "", attr |-> attr]
        ELSE IF n = "Windows" /\ (x = None \/ y = None)
             THEN combine_owned(w, a, b, i + 1, wts, Put(attr, n, None))
        ELSE IF x = None THEN [w |-> w, exc |-> "AttributeError", attr |-> attr]
        ELSE IF y = None THEN [w |-> w, exc |-> "NotImplementedError", attr |-> attr]
        ELSE IF r.exc # "" THEN [w |-> r.w, exc |-> r.exc, attr |-> attr]
        ELSE combine_owned(r.w, a, b, i + 1, wts, Put(attr, n, Ref(r.ret)))

\* the attributes whose aggregate Zone.combine hands to the new zone:
\* attr[...]._belongs_to_zone = new_obj (Windows when it is not None)
Reparented ==
    <<"Conditioning", "Constructions", "Ventilation", "DomesticHotWater",
      "Windows">>

\* the assignments of _belongs_to_zone, from the i-th on
RECURSIVE reparent(_, _, _, _)
reparent(w, z, attr, i) ==
    IF i > Len(Reparented) THEN w
    ELSE IF ~Truthy(attr[Reparented[i]]) THEN reparent(w, z, attr, i + 1)
    ELSE reparent(SetDict(w, attr[Reparented[i]].a,
                          Put(Obj(w, attr[Reparented[i]].a).d,
                              "_belongs_to_zone", Ref(z))),
                  z, attr, i + 1)

\* new_obj._volume, new_obj._area, the back-references and the predecessors,
\* r the outcome of Zone(**meta, **attr)
Zone_combine_owned_made(r, a, b, attr) ==
    LET va == Zone_volume(r.w, a)
        vb == Zone_volume(r.w, b)
        aa == Zone_area(r.w, a)
        ab == Zone_area(r.w, b)
    IN  IF r.exc # "" THEN r
        ELSE IF va.exc # "" THEN Raises(r.w, va.exc)
        ELSE IF vb.exc # "" THEN Raises(r.w, vb.exc)
        ELSE IF aa.exc # "" THEN Raises(r.w, aa.exc)
        ELSE IF ab.exc # "" THEN Raises(r.w, ab.exc)
        ELSE Returns(
               ExtendPredecessors(
                 reparent(SetDict(r.w, r.ret,
                                  Update(Obj(r.w, r.ret).d,
                                         [_volume |-> RAdd(va.v, vb.v),
                                          _area |-> RAdd(aa.v, ab.v)])),
                          r.ret, attr, 1),
                 r.ret, a, b),
               r.ret)

\* the float means and the new zone, c the outcome of the combines of the
\* aggregates
Zone_combine_owned_attr(c, a, b, wts) ==
    LET fm == float_mean(c.w, a, b, "DaylightMeshResolution", wts)
    IN  IF c.exc # "" THEN Raises(c.w, c.exc)
        ELSE IF fm.exc # "" THEN Raises(c.w, fm.exc)
        ELSE Zone_combine_owned_made(
               Zone_call_owned(c.w,
                   Update(Update(get_predecessors_meta(c.w, a, b), c.attr),
                          [DaylightMeshResolution |-> fm.v])),
               a, b, c.attr)

\* Zone.combine(self=a, other=b, weights) with every owned aggregate
Zone_combine_owned(w, a, b, weights) ==
    LET wts == Zone_weights(w, a, b, weights)
    IN  IF Obj(w, b).cls # Obj(w, a).cls THEN Raises(w, "NotImplementedError")
        ELSE IF Zone_eq_owned(w, a, b) THEN Returns(w, a)
        ELSE IF wts.exc # "" THEN Raises(w, wts.exc)
        ELSE Zone_combine_owned_attr(
               combine_owned(w, a, b, 1, wts.l, EmptyDict), a, b, wts.l)

\* ------------------------------------------------- two zones (bounded)
\* how the aggregate of the second zone relates to the one of the first:
\* the same object, an equal one, an unequal one (for a construction set:
\* another Slab, or one flag set), none
OwnedChoices(attr) ==
    CASE attr = "Constructions" -> {"same", "equal", "slab"} \cup Range(Flags)
      [] attr \in {"Conditioning", "Loads"} -> {"same", "equal", "unequal"}
      [] attr = "Windows" -> {"same", "equal", "unequal", "none"}
      [] OTHER -> {"same", "unequal"}

ZoneChoices ==
    [Conditioning : OwnedChoices("Conditioning"),
     Constructions : OwnedChoices("Constructions"),
     Ventilation : OwnedChoices("Ventilation"),
     Windows : OwnedChoices("Windows"),
     DomesticHotWater : OwnedChoices("DomesticHotWater"),
     InternalMassConstruction : OwnedChoices("InternalMassConstruction"),
     Loads : OwnedChoices("Loads")]

\* the second zone has an aggregate of its own at attribute i
Own(ch, i) == ch[OwnedAttrs[i]] \notin {"same", "none"}

\* the addresses: the first zone at 1, its aggregates after it, the second
\* zone, its own aggregates after it
AddrA(i) == 1 + i
AddrZoneB == Len(OwnedAttrs) + 2
AddrB(ch, i) == AddrZoneB + Cardinality({j \in 1..i : Own(ch, j)})

\* the class of the aggregate at attribute i
ClassAt(i, setcls) ==
    IF OwnedAttrs[i] = "Constructions" THEN setcls ELSE OwnedClass(OwnedAttrs[i])

\* the aggregate of the first zone at attribute i
OwnedOfA(i, setcls) ==
    [cls |-> ClassAt(i, setcls),
     d |-> Owned_init(ClassAt(i, setcls), AddrA(i),
                      [Name |-> Str(<<"A", Digit[i + 1]>>), idf |-> Idf1,
                       Value |-> Str(<<"v">>), Slab |-> Str(<<"s">>),
                       zone |-> Ref(1)])]

\* the aggregate of the second zone at attribute i, when it has its own
OwnedOfB(ch, i, setcls) ==
    [cls |-> ClassAt(i, setcls),
     d |-> Owned_init(ClassAt(i, setcls), AddrB(ch, i),
               Update([Name |-> Str(<<"B", Digit[i + 1]>>), idf |-> Idf1,
                       Value |-> Str(IF ch[OwnedAttrs[i]] = "unequal"
                                     THEN <<"u">> ELSE <<"v">>),
                       Slab |-> Str(IF ch[OwnedAttrs[i]] = "slab"
                                    THEN <<"t">> ELSE <<"s">>),
                       zone |-> Ref(AddrZoneB)],
                      [f \in {ch[OwnedAttrs[i]]} \cap Range(Flags) |-> Bool(TRUE)]))]

\* what the second zone holds at attribute i
HeldByB(ch, i) ==
    CASE ch[OwnedAttrs[i]] = "same" -> Ref(AddrA(i))
      [] ch[OwnedAttrs[i]] = "none" -> None
      [] OTHER -> Ref(AddrB(ch, i))

ZoneA ==
    [cls |-> "Zone",
     d |-> Zone_init_owned(1,
               Update([Name |-> NameA, idf |-> Idf1, area |-> Num(50, 1),
                       volume |-> Num(100, 1)],
                      [n \in Range(OwnedAttrs) |->
                          Ref(AddrA(CHOOSE i \in 1..Len(OwnedAttrs) :
                                      OwnedAttrs[i] = n))]))]

ZoneB(ch) ==
    [cls |-> "Zone",
     d |-> Zone_init_owned(AddrZoneB,
               Update([Name |-> NameB, idf |-> Idf1, area |-> Num(30, 1),
                       volume |-> Num(300, 1)],
                      [n \in Range(OwnedAttrs) |->
                          HeldByB(ch, CHOOSE i \in 1..Len(OwnedAttrs) :
                                        OwnedAttrs[i] = n)]))]

\* the objects of the two zones, in the order they are made
TwoZonesHeap(ch, setcls) ==
    [x \in 1..AddrB(ch, Len(OwnedAttrs)) |->
        IF x = 1 THEN ZoneA
        ELSE IF x < AddrZoneB THEN OwnedOfA(x - 1, setcls)
        ELSE IF x = AddrZoneB THEN ZoneB(ch)
        ELSE OwnedOfB(ch, CHOOSE i \in 1..Len(OwnedAttrs) :
                            Own(ch, i) /\ AddrB(ch, i) = x, setcls)]

\* the key an object is registered under
KeyOf(o) ==
    IF o.cls = "Zone" THEN Zone_hash(o.d.Name, o.d.idf)
    ELSE UniqueKey(o.cls, o.d.Name)

\* the registry of the objects of a heap whose class is in classes
RegistryOf(h, classes) ==
    [k \in {KeyOf(h[x]) : x \in {y \in 1..Len(h) : h[y].cls \in classes}} |->
        CHOOSE x \in 1..Len(h) : KeyOf(h[x]) = k]

InitZones ==
    \E ch \in ZoneChoices, setcls \in ConstructionSetClasses :
      \E h \in {TwoZonesHeap(ch, setcls)} :
        /\ heap = h
        /\ created_obj = RegistryOf(h, {h[x].cls : x \in 1..Len(h)})
        /\ cls_cache = [c \in Classes |-> RegistryOf(h, {c})]
        /\ zonesurfaces = <<>>
        /\ z_set = NotBuilt
        /\ umi_template = None
        /\ data_dict = None
        /\ reads = 0

\* the objects of a class among classes
OfClass(classes) == {x \in Addrs(World) : Obj(World, x).cls \in classes}

\* z = a.combine(b, weights) for two zones
CombineZones ==
    /\ Cardinality(OfClass({"Zone"})) < MaxZones
    /\ \E a \in OfClass({"Zone"}), b \in OfClass({"Zone"}), wts \in ExplicitWeights :
        \E r \in {Zone_combine_owned(World, a, b, wts)} :
            /\ r.exc # HeapFull
            /\ heap' = r.w.heap
            /\ created_obj' = r.w.created_obj
            /\ cls_cache' = r.w.cls_cache
    /\ UNCHANGED not_heap_vars

\* s = x.combine(y, weights) for two construction sets
CombineSets ==
    /\ Cardinality(OfClass(ConstructionSetClasses)) < MaxSets
    /\ \E x \in OfClass(ConstructionSetClasses), y \in OfClass(ConstructionSetClasses),
          wts \in ExplicitWeights :
        \E r \in {Owned_combine(World, x, y, wts)} :
            /\ r.exc # HeapFull
            /\ heap' = r.w.heap
            /\ created_obj' = r.w.created_obj
            /\ cls_cache' = r.w.cls_cache
    /\ UNCHANGED not_heap_vars

NextZones == CombineZones \/ CombineSets

SpecZones == InitZones /\ [][NextZones]_vars

\* the aggregate the zone z of the world w holds at attribute n belongs to z
\* (an attribute that holds None has no aggregate)
BelongsTo(w, z, n) ==
    Attr(w, z, n) # None =>
      Attr(w, Attr(w, z, n).a, "_belongs_to_zone") = Ref(z)

\* C22: after z = a.combine(b) for unequal zones a and b, the aggregates z
\* holds as Conditioning, Constructions, Ventilation, DomesticHotWater, Loads
\* and Windows (when present) have z as their belongs-to-zone back-reference.
C22_AggregatesBelongToNewZone ==
    \A a \in OfClass({"Zone"}), b \in OfClass({"Zone"}), wts \in ExplicitWeights :
      LET r == Zone_combine_owned(World, a, b, wts)
      IN  (~Zone_eq_owned(World, a, b) /\ r.exc = "") =>
            \A n \in {"Conditioning", "Constructions", "Ventilation",
                       "DomesticHotWater", "Loads", "Windows"} :
              BelongsTo(r.w, r.ret, n)

\* C22 without Loads: the aggregates Zone.combine assigns the new zone to
C22_AssignedBelongToNewZone ==
    \A a \in OfClass({"Zone"}), b \in OfClass({"Zone"}), wts \in ExplicitWeights :
      LET r == Zone_combine_owned(World, a, b, wts)
      IN  (~Zone_eq_owned(World, a, b) /\ r.exc = "") =>
            /\ \A i \in 1..Len(Reparented) : BelongsTo(r.w, r.ret, Reparented[i])
            /\ ~BelongsTo(r.w, r.ret, "Loads")
            /\ Attr(r.w, Attr(r.w, r.ret, "Loads").a, "_belongs_to_zone")
                 \in {None, Ref(a)} \cup {Ref(x) : x \in OfClass({"Zone"})}

\* a zone made by the combine of two unequal zones, with its Windows, whose
\* Loads is a new object that belongs to no zone
C22_CombinedLoadsUnowned ==
    \E z \in OfClass({"Zone"}) :
        /\ Attr(World, z, "Name") = NameAB
        /\ Attr(World, z, "Windows") # None
        /\ BelongsTo(World, z, "Conditioning")
        /\ BelongsTo(World, z, "Windows")
        /\ Attr(World, Attr(World, z, "Loads").a, "Name") = Str(<<"A", "7", "B", "7">>)
        /\ Attr(World, Attr(World, z, "Loads").a, "_belongs_to_zone") = None

\* the construction sets of the world whose class is cls
SetsOf(cls) == OfClass({cls})

\* every flag of the set s of the world w is the OR of the flags of x and y
FlagsAreOr(w, s, x, y) ==
    \A i \in 1..Len(Flags) :
      Attr(w, s, Flags[i]) =
        Bool(Attr(World, x, Flags[i]).b \/ Attr(World, y, Flags[i]).b)

\* the combines of two unequal construction sets of the class cls give a set
\* whose flags are the OR of the flags of the operands
CombinedFlagsAreOr(cls) ==
    \A x \in SetsOf(cls), y \in SetsOf(cls), wts \in ExplicitWeights :
      LET r == Owned_combine(World, x, y, wts)
      IN  (~Owned_eq(World, x, y) /\ r.exc = "") =>
            FlagsAreOr(r.w, r.ret, x, y)

\* C23: in ZoneConstructionSet.combine of two unequal sets, each of the five
\* adiabatic flags of the result is the logical OR of the flags of the two
\* operands, in both definitions of ZoneConstructionSet (the one of
\* zone_construction_set.py and the one of zone.py).
C23_FlagsAreOrInBothDefinitions ==
    \A cls \in ConstructionSetClasses : CombinedFlagsAreOr(cls)

\* C23 for the definition of zone_construction_set.py alone
C23_FlagsAreOrInZoneConstructionSetPy == CombinedFlagsAreOr("ZoneConstructionSet")

\* in the definition of zone.py the flags of the result are those of self
C23_FlagsAreSelfInZonePy ==
    \A x \in SetsOf(ZoneConstructionSetOfZonePy),
       y \in SetsOf(ZoneConstructionSetOfZonePy), wts \in ExplicitWeights :
      LET r == Owned_combine(World, x, y, wts)
      IN  (~Owned_eq(World, x, y) /\ r.exc = "") =>
            \A i \in 1..Len(Flags) :
              Attr(r.w, r.ret, Flags[i]) = Attr(World, x, Flags[i])

\* a set of zone.py made by the combine of a set whose flags are all False
\* with one whose roof is adiabatic: its roof is not adiabatic
C23_AdiabaticRoofLost ==
    \E s \in SetsOf(ZoneConstructionSetOfZonePy),
       x \in SetsOf(ZoneConstructionSetOfZonePy),
       y \in SetsOf(ZoneConstructionSetOfZonePy) :
        /\ Attr(World, s, "Name") = Str(Attr(World, x, "Name").s \o Attr(World, y, "Name").s)
        /\ ~Attr(World, x, "IsRoofAdiabatic").b
        /\ Attr(World, y, "IsRoofAdiabatic").b
        /\ ~Attr(World, s, "IsRoofAdiabatic").b

\* the position of the category of a class in the order read_file
\* constructs the categories
CategoryPosition(cls) == CHOOSE k \in 1..Len(ClassOrder) : ClassOrder[k] = cls

\* the objects the references of the object a of the world w were resolved
\* to: the attributes from_json / from_dict assign with get_ref and the
\* materials of the layers
ResolvedTargets(w, a) ==
    {Attr(w, a, n).a : n \in {m \in Range(RefAttrs(Obj(w, a).cls)) :
                                Attr(w, a, m).t = "ref"}}
    \cup (IF Obj(w, a).cls = "WindowConstruction"
          THEN {Attr(w, a, "Layers").l[i].Material.a :
                  i \in 1..Len(Attr(w, a, "Layers").l)}
          ELSE {})

\* the read r of a document resolved every reference of the entities of
\* each category to an entity of a category constructed strictly earlier
ResolvedEarlier(r) ==
    \A k \in 1..Len(CategoryOrder) :
      \A i \in 1..Len(r.t[CategoryOrder[k]]) :
        \A b \in ResolvedTargets(r.w, r.t[CategoryOrder[k]][i]) :
          CategoryPosition(Obj(r.w, b).cls) < k

\* the objects of the read r were made category by category, in the order
\* of CategoryOrder
MadeInCategoryOrder(r) ==
    \A x, y \in Addrs(r.w) :
      x < y => CategoryPosition(Obj(r.w, x).cls) <= CategoryPosition(Obj(r.w, y).cls)

\* the documents read_file is given: the library files and the document
\* to_dict returned
DocumentsRead == Documents \cup ({data_dict} \ {None})

\* C24: read_file constructs the categories in the fixed order GasMaterials,
\* ..., BuildingTemplates, and every "$ref" resolved while constructing an
\* entity of one category targets an entity of a category constructed
\* strictly earlier.
C24_RefsTargetEarlierCategory ==
    \A datastore \in DocumentsRead :
      LET r == read_file(World, datastore)
      IN  r.exc = "" => ResolvedEarlier(r)

\* C24 in a process that has read nothing before: the objects are made in
\* the order of the categories and every reference resolved targets an
\* earlier category
C24_EarlierInFreshProcess ==
    \A datastore \in DocumentsRead :
      LET r == ReadBackOf(datastore)
      IN  r.exc = "" => MadeInCategoryOrder(r) /\ ResolvedEarlier(r)

\* C24 when no registered entity carries an id a document gave: every
\* reference resolved targets an earlier category
C24_EarlierWhenNoneReadBefore ==
    \A datastore \in DocumentsRead :
      LET r == read_file(World, datastore)
      IN  (/\ r.exc = ""
           /\ \A a \in Registered(World) : Attr(World, a, "id").t = "addr")
            => ResolvedEarlier(r)

\* a window construction read from a file whose layer was resolved to a
\* zone, an entity of a category read_file constructs later
C24_LayerResolvedToZone ==
    /\ umi_template # None
    /\ \E i \in 1..Len(umi_template["WindowConstructions"]) :
         \E b \in ResolvedTargets(World, umi_template["WindowConstructions"][i]) :
           Obj(World, b).cls = "Zone"

\* ------------------------------------------------- Zone.is_core
\* int(x) of a number: the fraction is cut off, towards zero
int(x) == IF x.n >= 0 THEN x.n \div x.d ELSE -((-x.n) \div x.d)

\* math.isclose(a, b) of two integers: abs(a - b) <= 1e-09 * max(abs(a), abs(b))
isclose(a, b) ==
    Abs(a - b) <= (IF Abs(a) >= Abs(b) THEN Abs(a) ELSE Abs(b)) \div 1000000000

\* s.lower() of a string
str_lower(s) == [i \in 1..Len(s) |-> lower(s[i])]

Outdoors == <<"O", "u", "t", "d", "o", "o", "r", "s">>

\* the loop of Zone.is_core over the surfaces from the i-th on: a surface
\* without tilt or without Outside_Boundary_Condition raises
\* BadEPFieldError, which is passed (the field is None here)
RECURSIVE is_core_loop(_, _)
is_core_loop(surfs, i) ==
    IF i > Len(surfs) THEN TRUE
    ELSE IF surfs[i].tilt = None THEN is_core_loop(surfs, i + 1)
    ELSE IF ~isclose(int(surfs[i].tilt), 90) THEN is_core_loop(surfs, i + 1)
    ELSE IF surfs[i].Outside_Boundary_Condition = None
         THEN is_core_loop(surfs, i + 1)
    ELSE IF str_lower(surfs[i].Outside_Boundary_Condition) = str_lower(Outdoors)
         THEN FALSE
    ELSE is_core_loop(surfs, i + 1)

\* Zone.is_core for a zone of the given surfaces
is_core(surfs) == is_core_loop(surfs, 1)

\* the tilts of the surfaces: floors, roofs, walls, a pitched roof, a wall
\* leaning by half a degree, a wall whose tilt comes out just under 90, and
\* a surface without tilt (internal mass)
Tilts ==
    {None, Num(0, 1), Num(30, 1), Num(90, 1), Num(181, 2), Num(8999, 100),
     Num(180, 1)}

\* the boundary conditions as the file spells them, and a surface without
\* the field
BoundaryConditions ==
    {None, Outdoors, <<"o", "u", "t", "d", "o", "o", "r", "s">>,
     <<"O", "U", "T", "D", "O", "O", "R", "S">>, <<"G", "r", "o", "u", "n", "d">>,
     <<"S", "u", "r", "f", "a", "c", "e">>}

CoreSurfaces ==
    [tilt : Tilts, Outside_Boundary_Condition : BoundaryConditions]

\* the longest list of surfaces of a zone whose is_core is asked
MaxCoreSurfaces == 2

CoreSurfaceLists == UNION { [1..n -> CoreSurfaces] : n \in 0..MaxCoreSurfaces }

\* no answer of is_core yet
NotAsked == [exc |-> "", built |-> FALSE]

InitIsCore ==
    /\ heap = <<>>
    /\ created_obj = EmptyDict
    /\ cls_cache = [c \in Classes |-> EmptyDict]
    /\ zonesurfaces \in CoreSurfaceLists
    /\ z_set = NotAsked
    /\ umi_template = None
    /\ data_dict = None
    /\ reads = 0

\* zone.is_core
IsCore ==
    /\ z_set = NotAsked
    /\ z_set' = [exc |-> "", built |-> FALSE, is_core |-> is_core(zonesurfaces)]
    /\ UNCHANGED <<zonesurfaces, heap_vars, library_vars>>

NextIsCore == IsCore

SpecIsCore == InitIsCore /\ [][NextIsCore]_vars

\* the surfaces of the zone that have both fields
WithBothFields ==
    {i \in 1..Len(zonesurfaces) :
        /\ zonesurfaces[i].tilt # None
        /\ zonesurfaces[i].Outside_Boundary_Condition # None}

\* the surface has Outdoors as its boundary condition, whatever the case
IsOutdoors(i) ==
    \E b \in {Outdoors, <<"o", "u", "t", "d", "o", "o", "r", "s">>,
               <<"O", "U", "T", "D", "O", "O", "R", "S">>} :
      zonesurfaces[i].Outside_Boundary_Condition = b

\* C25: Zone.is_core is True if and only if the zone has no vertical surface
\* (tilt of 90 degrees) whose Outside_Boundary_Condition is Outdoors,
\* compared case-insensitively; a surface without the field never makes the
\* zone perimeter and a zone with no surfaces is core.
C25_CoreIffNoVerticalOutdoors ==
    ("is_core" \in DOMAIN z_set) =>
      (z_set.is_core <=>
         ~\E i \in WithBothFields :
             zonesurfaces[i].tilt = Num(90, 1) /\ IsOutdoors(i))

\* what is_core answers: core iff no surface whose tilt, cut to an
\* integer, is 90 has Outdoors as its boundary condition
C25_CoreIffNoTruncatedVerticalOutdoors ==
    ("is_core" \in DOMAIN z_set) =>
      (z_set.is_core <=>
         ~\E i \in WithBothFields :
             /\ Num(90, 1).n * zonesurfaces[i].tilt.d <= zonesurfaces[i].tilt.n
             /\ zonesurfaces[i].tilt.n < 91 * zonesurfaces[i].tilt.d
             /\ IsOutdoors(i))

\* a zone whose only outdoor surface leans by half a degree is perimeter
C25_LeaningWallMakesPerimeter ==
    /\ "is_core" \in DOMAIN z_set
    /\ ~z_set.is_core
    /\ Len(zonesurfaces) = 1
    /\ zonesurfaces[1].tilt = Num(181, 2)

\* a zone whose only outdoor wall has a tilt just under 90 is core
C25_WallJustUnderVerticalIsCore ==
    /\ "is_core" \in DOMAIN z_set
    /\ z_set.is_core
    /\ Len(zonesurfaces) = 1
    /\ zonesurfaces[1].tilt = Num(8999, 100)
    /\ zonesurfaces[1].Outside_Boundary_Condition # None
    /\ zonesurfaces[1].Outside_Boundary_Condition = Outdoors

\* the object a of the world w has its Name and is registered under the
\* key of its class and Name
NamedAndRegistered(w, a) ==
    /\ HasAttr(w, a, "Name")
    /\ UniqueKey(Obj(w, a).cls, Attr(w, a, "Name")) \in DOMAIN w.created_obj
    /\ w.created_obj[UniqueKey(Obj(w, a).cls, Attr(w, a, "Name"))] = a

\* the targets and operands of an extend: two objects of one class built
\* with Unique, the target with its Name and registered
ExtendPairs ==
    {p \in Addrs(World) \X Addrs(World) :
        /\ Obj(World, p[1]).cls \in UniqueClasses
        /\ Obj(World, p[2]).cls = Obj(World, p[1]).cls
        /\ NamedAndRegistered(World, p[1])}

\* after the extend r of a, a has its Name, every attribute it had, and its
\* registration
TargetKept(r, a) ==
    /\ NamedAndRegistered(r.w, a)
    /\ Attr(r.w, a, "Name") = Attr(World, a, "Name")
    /\ DOMAIN Obj(World, a).d \subseteq DOMAIN Obj(r.w, a).d

\* C26: after a += b for every b of the same type, including b value-equal
\* to a, a still has its Name and every other attribute it had, and is
\* still registered under (type, a.Name): extend removes from the registry
\* only the intermediate combined object.
C26_ExtendKeepsTarget ==
    \A p \in ExtendPairs :
      LET r == extend(World, p[1], p[2])
      IN  r.exc = "" => TargetKept(r, p[1])

\* C26 for operands that are not value-equal
C26_ExtendKeepsTargetOfUnequal ==
    \A p \in ExtendPairs :
      LET r == extend(World, p[1], p[2])
      IN  (r.exc = "" /\ ~eq(World, p[1], p[2])) => TargetKept(r, p[1])

\* for value-equal operands the extend strips the target of its Name and
\* of its registration
C26_ExtendOfEqualStripsTarget ==
    \A p \in ExtendPairs :
      LET r == extend(World, p[1], p[2])
      IN  (r.exc = "" /\ eq(World, p[1], p[2])) =>
            /\ ~HasAttr(r.w, p[1], "Name")
            /\ p[1] \notin Registered(r.w)

\* two materials, the first extended by the second, which is value-equal:
\* the first has lost its Name and is registered no more
C26_TargetStripped ==
    /\ Len(heap) = 2
    /\ Obj(World, 1).cls = "GlazingMaterial"
    /\ ~HasAttr(World, 1, "Name")
    /\ HasAttr(World, 2, "Name")
    /\ Registered(World) = {2}

\* the ids the {"$ref": id} of an entry of a document point to: its
\* reference attributes and the Material of its layers
EntryRefs(e) ==
    {e[k].ref : k \in {x \in DOMAIN e : e[x].t = "$ref"}}
    \cup (IF "Layers" \in DOMAIN e
          THEN {e["Layers"].l[j].Material.ref : j \in 1..Len(e["Layers"].l)}
          ELSE {})

\* the ids every {"$ref": id} of a document points to, and the "$id" of
\* its entries
DocRefs(doc) ==
    UNION {UNION {EntryRefs(doc[c][i]) : i \in 1..Len(doc[c])} : c \in Categories}
DocIds(doc) ==
    UNION {{doc[c][i]["$id"] : i \in 1..Len(doc[c])} : c \in Categories}

HeldUnderUnderscore ==
    {a \in Reachable :
        \E k \in DOMAIN Obj(World, a).d \cap UnderscoreAttrs :
            Attr(World, a, k).t \in {"ref", "list"}}

ZoneLists(w, bld) ==
    [k \in {"cores", "perims"} \cap DOMAIN Obj(w, bld).d |-> Obj(w, bld).d[k]]

\* the buildings of the library
BuildingsOf(t) == Range(t["BuildingTemplates"])

\* what the put-back leaves on a building: the lists it had, None for
\* one it did not have
PutBack(w, bld) ==
    [cores |-> Get(Obj(w, bld).d, "cores", None),
     perims |-> Get(Obj(w, bld).d, "perims", None)]

\* C29: after to_dict (all_zones False), whether it returns or raises,
\* every building of the library has cores and perims exactly as before:
\* the same lists if it had them, still absent if it had none.
C29_ZoneListsAsBefore ==
    umi_template # None =>
        \A bld \in BuildingsOf(umi_template) :
            ZoneLists(to_dict(World, umi_template).w, bld)
                = ZoneLists(World, bld)

\* C29, as the code has it, when to_dict returns: every building has both
\* attributes, the lists it had and None for one it did not have.
C29_ReturnedPutsBackOrNone ==
    (umi_template # None /\ to_dict(World, umi_template).exc = "") =>
        \A bld \in BuildingsOf(umi_template) :
            ZoneLists(to_dict(World, umi_template).w, bld)
                = PutBack(World, bld)

\* C29, as the code has it, when to_dict raises: either the loop over
\* the buildings was over (every building as put back), or one building
\* is left with neither attribute and every other one is as before or as
\* put back.
C29_RaisedLeavesOneStripped ==
    (umi_template # None /\ to_dict(World, umi_template).exc # "") =>
        \/ \A bld \in BuildingsOf(umi_template) :
              ZoneLists(to_dict(World, umi_template).w, bld)
                  = PutBack(World, bld)
        \/ \E bld \in BuildingsOf(umi_template) :
              /\ DOMAIN ZoneLists(to_dict(World, umi_template).w, bld) = {}
              /\ \A other \in BuildingsOf(umi_template) \ {bld} :
                    ZoneLists(to_dict(World, umi_template).w, other)
                        \in {ZoneLists(World, other), PutBack(World, other)}

\* a library read from a file, whose building never had cores, is written
C29_BuildingWithoutListsWritten ==
    /\ umi_template # None
    /\ to_dict(World, umi_template).exc = ""
    /\ \E bld \in BuildingsOf(umi_template) :
          /\ "cores" \notin DOMAIN Obj(World, bld).d
          /\ to_dict(World, umi_template).w.heap[bld].d["cores"] = None

\* the loop of to_dict raises on a building that never had the lists
C29_RaisedOnBuildingWithoutLists ==
    /\ umi_template # None
    /\ walk_buildings(World, umi_template).exc # ""
    /\ \E bld \in BuildingsOf(umi_template) :
          DOMAIN ZoneLists(World, bld) = {}

\* ---------------------------------------------------------------------
\* the whole-batch failure of read_idf

\* at least one task was run and every task returned an exception
EveryTaskFailed(r) ==
    /\ Len(r.results) >= 1
    /\ \A i \in 1..Len(r.results) : ~Succeeded(r, i)

\* C30: read_idf raises the whole-batch failure exactly when at least one
\* task was run and every task returned an exception; given an empty list
\* of idf files it returns a library with no BuildingTemplates.
C30_RaisesIffTasksAllFailed ==
    \A idf_files \in IdfFileLists :
      LET r == read_idf(World, idf_files)
      IN  Ran(r) =>
            /\ r.exc # "" <=> EveryTaskFailed(r)
            /\ idf_files = <<>> =>
                  /\ r.exc = ""
                  /\ r.t["BuildingTemplates"] = <<>>

\* C30, as the code has it: read_idf raises exactly when no result is a
\* BuildingTemplate, the batch without tasks included.
C30_RaisesIffNoResultSucceeded ==
    \A idf_files \in IdfFileLists :
      LET r == read_idf(World, idf_files)
      IN  Ran(r) =>
            (r.exc # "" <=> \A i \in 1..Len(r.results) : ~Succeeded(r, i))

\* C30 for the batches of at least one file: read_idf raises exactly when
\* every task returned an exception.
C30_RaisesIffTasksAllFailedOfSome ==
    \A idf_files \in IdfFileLists \ {<<>>} :
      LET r == read_idf(World, idf_files)
      IN  Ran(r) => (r.exc # "" <=> EveryTaskFailed(r))

\* read_idf of no file, in a process that has read a library before: no
\* task is run and the call raises
C30_EmptyBatchRaises ==
    /\ reads >= 1
    /\ umi_template # None
    /\ read_idf(World, <<>>).results = <<>>
    /\ read_idf(World, <<>>).exc = "Exception"

\* a batch of files whose tasks all fail raises
C30_FailedBatchRaises ==
    /\ reads >= 1
    /\ \E idf_files \in IdfFileLists :
         /\ Len(idf_files) >= 2
         /\ EveryTaskFailed(read_idf(World, idf_files))
         /\ read_idf(World, idf_files).exc = "Exception"

====
